---- MODULE Spec2Model ----
(***************************************************************************)
(* Model of the Base-POC fuzzing harness: the execution engine             *)
(* (AnvilForkExecutor: accounts, nonces, current sender, deployed          *)
(* contracts, receipt polling) and the fuzz driver (SolidityFuzzer).       *)
(* The forked node is a black box: every JSON-RPC answer is an input.      *)
(***************************************************************************)
EXTENDS Integers, Sequences, FiniteSets, TLC

\* ------------------------------------------------------------------ bounds
\* The node answers eth_getBalance for the first k probed addresses, for
\* some k of 0..MaxFunded.
MaxFunded == 2
\* eth_getTransactionCount answers 0..MaxSeed at construction.
MaxSeed == 1
\* Cap on the transactions the node accepts from one engine.
MaxTx == 2
\* The most parameters of a list.
MaxArgs == 2

\* ------------------------------------------------------- program constants
\* anvil_executor.rs:308  `if attempts > 100`
MAX_ATTEMPTS == 100

\* anvil_executor.rs:165-171, the fixed test-chain addresses
anvil_accounts ==
    << "0xf39Fd6e51aad88F6F4ce6aB8827279cffFb92266",
       "0x70997970C51812dc3A010C7d01b50e0d17dc79C8",
       "0x3C44CdDdB6a900fa2b585dd299e03d12FA4293BC",
       "0x90F79bf6EB2c4f870365E785982E1f101E93b906",
       "0x15d34AAf54267DB7D7c367839AAf71A00a2C6A65" >>

\* ----------------------------------------------------------- input domains
\* Contract names handed to deploy_contract / call_method.
ContractNames == {"Token", "Vault"}
\* contractAddress values a receipt may carry; NoAddr is an absent field.
Addresses == {"0xc0de01", "0xc0de02"}
NoAddr == "null"
\* TransactionReceipt.status: Option<String>; NoStatus is None.
NoStatus == "none"
Statuses == {"0x1", "1", "0x0", NoStatus}
\* TransactionReceipt as far as the engine reads it (gas_used only feeds a
\* number that no decision depends on).
Receipts == [status : Statuses, contract_address : Addresses \cup {NoAddr}]
NoReceipt == [status |-> "absent", contract_address |-> NoAddr]

\* What the node can answer to one eth_getTransactionReceipt request:
\* no JSON-RPC response arrives (the HTTP send fails or the body does not
\* parse), the response has an error object, the result is null or missing,
\* the result is a receipt, the result is non-null but no TransactionReceipt.
PollAnswers ==
    { [kind |-> k, receipt |-> NoReceipt] :
        k \in {"no_response", "rpc_error", "null", "bad_receipt"} }
    \cup { [kind |-> "receipt", receipt |-> r] : r \in Receipts }

\* What rpc_call can meet for eth_sendTransaction: no JSON-RPC response, an
\* error object, no result, a result that is no string, a transaction hash.
SendResponses ==
    {"no_response", "rpc_error", "no_result", "non_string", "hash"}

Range(s) == { s[i] : i \in 1..Len(s) }

\* --------------------------------------------------------------- variables
VARIABLES
    \* AnvilForkExecutor fields
    accounts, current_sender, nonces, deployed_contracts,
    \* the node: transactions accepted from this engine and not yet mined
    pending,
    \* history of the engine: the nonces seeded at construction, and per
    \* account the transactions the node accepted, the deployments that
    \* returned an address, the method calls that obtained a receipt; per
    \* contract name the contractAddress fields of the success receipts seen
    \* for its deployments
    seeded, broadcast, deploysReturned, callsReceipted, successAddrs,
    \* the last operation called and, for set_sender, its argument
    last,
    \* wait_for_transaction taken alone: where its loop stands, `attempts`,
    \* the requests it has made, the null answers and the last answer it got
    wpc, attempts, queries, nullAnswers, lastAnswer,
    \* fuzz_contract: where it stands, the parsed contract, the method of
    \* methods_to_test and the iteration it is at, its counters
    dpc, contract, mi, iter, total_passed, total_failed, total_skipped,
    method_passed, method_failed, method_skipped,
    \* contract_bytecode of fuzz_contract: "some" after a compilation that
    \* returned Ok, "none" after one that returned Err
    bytecode,
    \* history of fuzz_contract: the iterations run, those that met an
    \* error, what the last iteration met and how it was counted, the
    \* methods call_method was called for, what the deployment met
    iterations, errors, lastIter, calledMethods, deployMet,
    \* one parameter list taken through the parser's types, the generator,
    \* the encoder and the signature: where it stands, the type tokens of
    \* the declaration, the parsed types, the generated values, the result
    \* of encode_abi_args and of build_method_signature
    cpc, type_tokens, param_types, mock_args, encoded_args, method_signature,
    \* one function of the harness applied to one input: where this stands,
    \* the input, the value returned
    fpc, input, output

engineVars == <<accounts, current_sender, nonces, deployed_contracts>>
histVars == <<seeded, broadcast, deploysReturned, callsReceipted,
              successAddrs>>
waitVars == <<wpc, attempts, queries, nullAnswers, lastAnswer>>
driverVars == <<dpc, contract, mi, iter, total_passed, total_failed,
                total_skipped, method_passed, method_failed, method_skipped,
                bytecode, iterations, errors, lastIter, calledMethods,
                deployMet>>
codecVars == <<cpc, type_tokens, param_types, mock_args, encoded_args,
               method_signature>>
pureVars == <<fpc, input, output>>
vars == <<engineVars, pending, histVars, last, waitVars, driverVars,
          codecVars, pureVars>>

\* ------------------------------------------------------------ construction
RECURSIVE Retained(_, _)
\* get_anvil_accounts, the loop: the addresses whose get_balance returned Ok,
\* in list order.  balanceOk is the set of list positions that answered.
Retained(balanceOk, i) ==
    IF i > Len(anvil_accounts) THEN <<>>
    ELSE (IF i \in balanceOk THEN <<anvil_accounts[i]>> ELSE <<>>)
         \o Retained(balanceOk, i + 1)

\* get_anvil_accounts: the retained addresses, or the first address alone.
get_anvil_accounts(balanceOk) ==
    LET found == Retained(balanceOk, 1)
    IN  IF found = <<>> THEN <<anvil_accounts[1]>> ELSE found

\* Variant of SeedNonce: the count of the answer is taken even when the
\* query failed.
SeedNonceIgnoresFailure(countAnswer) == countAnswer.count

\* get_transaction_count(...).unwrap_or(0): countAnswer.ok tells whether the
\* query and the parse of its result succeeded, countAnswer.count the count.
SeedNonce(countAnswer) == IF countAnswer.ok THEN countAnswer.count ELSE 0

\* AnvilForkExecutor::new on a node whose balance probes succeed for
\* balanceOk and whose count query for list position i answers countOf[i].
new(balanceOk, countOf) ==
    LET accs == get_anvil_accounts(balanceOk)
        pos(a) == CHOOSE i \in 1..Len(anvil_accounts) : anvil_accounts[i] = a
    IN  [ ok |-> accs # <<>>,
          accounts |-> accs,
          current_sender |-> accs[1],
          nonces |-> [a \in Range(accs) |-> SeedNonce(countOf[pos(a)])],
          deployed_contracts |-> <<>> ]

\* ----------------------------------------------------------------- engine
\* Variant of StatusOf: a receipt without status counts as "0x1".
StatusOfDefaultSuccess(receipt) ==
    IF receipt.status = NoStatus THEN "0x1" ELSE receipt.status

\* receipt.status.as_deref().unwrap_or("0x0")
StatusOf(receipt) ==
    IF receipt.status = NoStatus THEN "0x0" ELSE receipt.status

\* let success = status == "0x1" || status == "1";
IsSuccess(receipt) == StatusOf(receipt) \in {"0x1", "1"}

\* HashMap::insert
Insert(map, key, value) ==
    [k \in DOMAIN map \cup {key} |-> IF k = key THEN value ELSE map[k]]

\* if let Some(nonce) = self.nonces.get_mut(&self.current_sender) { *nonce += 1 }
IncrementNonce(table, sender) ==
    IF sender \in DOMAIN table
    THEN [table EXCEPT ![sender] = @ + 1]
    ELSE table

\* Variant of wait_for_transaction: a null result ends the wait with an error.
wait_for_transaction_null_is_error(att, ans) ==
    IF ans.kind = "receipt"
    THEN [state |-> "receipt", attempts |-> att]
    ELSE [state |-> "error", attempts |-> att]

\* One turn of the loop of wait_for_transaction on the node's answer:
\* where the loop stands afterwards and the value of `attempts`.
wait_for_transaction(att, ans) ==
    IF ans.kind = "no_response"
    THEN [state |-> "error", attempts |-> att]
    ELSE IF ans.kind = "rpc_error"
    THEN [state |-> "error", attempts |-> att]
    ELSE IF ans.kind = "receipt"
    THEN [state |-> "receipt", attempts |-> att]
    ELSE IF ans.kind = "bad_receipt"
    THEN [state |-> "error", attempts |-> att]
    ELSE IF att + 1 > MAX_ATTEMPTS
    THEN [state |-> "timeout", attempts |-> att + 1]
    ELSE [state |-> "polling", attempts |-> att + 1]

\* Variant of set_sender: the index is taken in the fixed address list.
set_sender_fixed_list(accs, sender, sender_index) ==
    IF sender_index < Len(anvil_accounts)
    THEN anvil_accounts[sender_index + 1]
    ELSE sender

\* Variant of set_sender: an index out of range wraps around.
set_sender_wrapping(accs, sender, sender_index) ==
    accs[(sender_index % Len(accs)) + 1]

\* set_sender: the sender afterwards (sender_index counts from 0).
set_sender(accs, sender, sender_index) ==
    IF sender_index < Len(accs) THEN accs[sender_index + 1] ELSE sender


\* Result<_, anyhow::Error> of an engine operation.  ok: the Result is Ok;
\* success/error: MethodExecutionResult.success/.error (call_method) ;
\* address: the String deploy_contract returns; error names the message.
MkResult(operation, ok, success, error, address) ==
    [op |-> operation, ok |-> ok, success |-> success, error |-> error,
     address |-> address]
NoResult == MkResult("none", FALSE, FALSE, "none", NoAddr)

\* deploy_contract up to the answer to eth_sendTransaction (lines 225-228):
\* the error it returns at once, or "none" when it goes on to poll.
send_error(resp) ==
    IF resp \in {"no_response", "rpc_error", "no_result"}
    THEN "RPC error"
    ELSE IF resp = "non_string" THEN "Invalid transaction hash format"
    ELSE "none"

\* Variant of deploy_contract: a success receipt without contractAddress is
\* no error.
deploy_contract_address_optional(deployed, table, sender, name, waitState, receipt) ==
    IF waitState = "receipt" /\ IsSuccess(receipt)
    THEN [deployed |-> Insert(deployed, name, receipt.contract_address),
          nonces |-> IncrementNonce(table, sender),
          result |-> MkResult("deploy", TRUE, TRUE, "none",
                        receipt.contract_address)]
    ELSE [deployed |-> deployed, nonces |-> table,
          result |-> MkResult("deploy", FALSE, FALSE, "deployment failed",
                        NoAddr)]

\* deploy_contract from the end of wait_for_transaction (lines 231-265):
\* the deployed map, the nonce table and the value returned.
deploy_contract(deployed, table, sender, name, waitState, receipt) ==
    IF waitState # "receipt"
    THEN [deployed |-> deployed, nonces |-> table,
          result |-> MkResult("deploy", FALSE, FALSE,
                        IF waitState = "timeout"
                        THEN "Transaction not mined after 100 attempts"
                        ELSE "receipt query failed", NoAddr)]
    ELSE IF ~IsSuccess(receipt)
    THEN [deployed |-> deployed, nonces |-> table,
          result |-> MkResult("deploy", FALSE, FALSE,
                        "Contract deployment failed: Transaction reverted",
                        NoAddr)]
    ELSE IF receipt.contract_address = NoAddr
    THEN [deployed |-> deployed, nonces |-> table,
          result |-> MkResult("deploy", FALSE, FALSE,
                        "No contract address in receipt", NoAddr)]
    ELSE [deployed |-> Insert(deployed, name, receipt.contract_address),
          nonces |-> IncrementNonce(table, sender),
          result |-> MkResult("deploy", TRUE, TRUE, "none",
                        receipt.contract_address)]

\* Variant of call_method: the nonce is incremented once the transaction is
\* sent, whether or not a receipt is obtained.
call_method_counts_sent(table, sender, waitState, receipt) ==
    [nonces |-> IncrementNonce(table, sender),
     result |-> IF waitState = "receipt" /\ IsSuccess(receipt)
                THEN MkResult("call", TRUE, TRUE, "none", NoAddr)
                ELSE MkResult("call", TRUE, FALSE, "revert reason", NoAddr)]

\* call_method from the end of wait_for_transaction (lines 365-426):
\* the nonce table and the MethodExecutionResult returned.
call_method(table, sender, waitState, receipt) ==
    IF waitState = "receipt"
    THEN [nonces |-> IncrementNonce(table, sender),
          result |-> IF IsSuccess(receipt)
                     THEN MkResult("call", TRUE, TRUE, "none", NoAddr)
                     ELSE MkResult("call", TRUE, FALSE, "revert reason",
                                   NoAddr)]
    ELSE [nonces |-> table,
          result |-> MkResult("call", TRUE, FALSE, "Failed to get receipt",
                              NoAddr)]

\* call_method when eth_sendTransaction did not give a hash (lines 359-362,
\* 428-435): Ok(failure) on an rpc_call error, Err on a non-string result.
call_send_failed(resp) ==
    IF resp = "non_string"
    THEN MkResult("call", FALSE, FALSE, "Invalid transaction hash", NoAddr)
    ELSE MkResult("call", TRUE, FALSE, "Transaction failed", NoAddr)

\* call_method on a name that is no key of deployed_contracts (line 326).
call_not_deployed ==
    MkResult("call", FALSE, FALSE, "Contract not deployed", NoAddr)

\* The answers that are not null.
FinalAnswers == { a \in PollAnswers : a.kind # "null" }

\* The whole of wait_for_transaction against a node that answers null
\* `nulls` times and then `final` (a non-null answer): the turns of the loop
\* one after the other.  requests counts the receipt queries made.
WaitLoop[att \in Nat, requests \in Nat, nulls \in Nat, final \in FinalAnswers] ==
    LET ans == IF nulls > 0 THEN [kind |-> "null", receipt |-> NoReceipt]
               ELSE final
        w == wait_for_transaction(att, ans)
    IN  IF w.state = "polling"
        THEN WaitLoop[w.attempts, requests + 1, nulls - 1, final]
        ELSE [state |-> w.state, attempts |-> w.attempts,
              requests |-> requests + 1,
              receipt |-> IF w.state = "receipt" THEN ans.receipt
                          ELSE NoReceipt]

\* How the node behaves while one transaction is waited for.
\* The node answers the first query in any way, or answers null up to the
\* limit and then with a receipt or not at all, or answers null throughout.
LateAnswers ==
    { [kind |-> "no_response", receipt |-> NoReceipt],
      [kind |-> "receipt",
       receipt |-> [status |-> "0x1", contract_address |-> "0xc0de01"]],
      [kind |-> "receipt",
       receipt |-> [status |-> "0x1", contract_address |-> NoAddr]] }
WaitScripts ==
    [nulls : {0}, final : FinalAnswers]
    \cup [nulls : {MAX_ATTEMPTS}, final : LateAnswers]
    \cup { [nulls |-> MAX_ATTEMPTS + 1,
            final |-> [kind |-> "no_response", receipt |-> NoReceipt]] }

\* The node's part in one operation that sends a transaction: its answer to
\* eth_sendTransaction and, after a hash, to the receipt queries.
NoScript ==
    [nulls |-> 0, final |-> [kind |-> "no_response", receipt |-> NoReceipt]]
NodeBehaviours ==
    { [resp |-> r, script |-> NoScript] : r \in SendResponses \ {"hash"} }
    \cup { [resp |-> "hash", script |-> sc] : sc \in WaitScripts }

\* The node's part in a method call: the receipt of a call holds no contract
\* address.
CallBehaviours ==
    { b \in NodeBehaviours :
        b.script.final.kind = "receipt" =>
            b.script.final.receipt.contract_address = NoAddr }

\* wait_for_transaction for every behaviour of the node.
WaitTable ==
    [sc \in WaitScripts |-> WaitLoop[0, 0, sc.nulls, sc.final]] @@ << >>
WaitOutcome(script) == WaitTable[script]

\* The record of an operation kept in `last`.
Last(operation, arg) == [op |-> operation, arg |-> arg]

\* The transactions the node has accepted from the engine.
RECURSIVE Sum(_, _)
Sum(f, keys) ==
    IF keys = {} THEN 0
    ELSE LET k == CHOOSE x \in keys : TRUE IN f[k] + Sum(f, keys \ {k})
Broadcast == Sum(broadcast, DOMAIN broadcast)
NoWait == [state |-> "none", attempts |-> 0, requests |-> 0,
           receipt |-> NoReceipt]

Bump(f, k) == [f EXCEPT ![k] = @ + 1]

\* ------------------------------------------------------ engine operations
\* deploy_contract(name) as a whole, sent from `sender` (the current
\* sender): resp is the answer to eth_sendTransaction, script the node's
\* answers to the receipt queries.
DeployContract(sender, name, resp, script) ==
    LET w == IF resp = "hash" THEN WaitOutcome(script) ELSE NoWait
        d == deploy_contract(deployed_contracts, nonces, sender, name,
                             w.state, w.receipt)
    IN  /\ last' = Last("deploy_contract", 0)
        /\ IF resp = "hash"
           THEN /\ deployed_contracts' = d.deployed
                /\ nonces' = d.nonces
                /\ broadcast' = Bump(broadcast, sender)
                /\ pending' = IF w.state = "receipt" THEN pending
                              ELSE pending + 1
                /\ deploysReturned' =
                     IF d.result.ok THEN Bump(deploysReturned, sender)
                     ELSE deploysReturned
                /\ successAddrs' =
                     IF /\ w.state = "receipt"
                        /\ w.receipt.status \in {"0x1", "1"}
                        /\ w.receipt.contract_address # NoAddr
                     THEN [successAddrs EXCEPT ![name] =
                             @ \cup {w.receipt.contract_address}]
                     ELSE successAddrs
           ELSE UNCHANGED <<deployed_contracts, nonces, broadcast, pending,
                            deploysReturned, successAddrs>>
        /\ UNCHANGED <<accounts, seeded, callsReceipted>>

\* What DeployContract returns.
DeployResult(sender, name, resp, script) ==
    IF resp = "hash"
    THEN deploy_contract(deployed_contracts, nonces, sender, name,
                         WaitOutcome(script).state,
                         WaitOutcome(script).receipt).result
    ELSE MkResult("deploy", FALSE, FALSE, send_error(resp), NoAddr)

\* call_method(name) as a whole, sent from `sender`.
CallMethod(sender, name, resp, script) ==
    LET known == name \in DOMAIN deployed_contracts
        w == IF known /\ resp = "hash" THEN WaitOutcome(script) ELSE NoWait
        c == call_method(nonces, sender, w.state, w.receipt)
    IN  /\ last' = Last("call_method", 0)
        /\ IF known /\ resp = "hash"
           THEN /\ nonces' = c.nonces
                /\ broadcast' = Bump(broadcast, sender)
                /\ pending' = IF w.state = "receipt" THEN pending
                              ELSE pending + 1
                /\ callsReceipted' =
                     IF w.state = "receipt"
                     THEN Bump(callsReceipted, sender)
                     ELSE callsReceipted
           ELSE UNCHANGED <<nonces, broadcast, pending, callsReceipted>>
        /\ UNCHANGED <<accounts, deployed_contracts, seeded,
                       deploysReturned, successAddrs>>

\* What CallMethod returns.
CallResult(sender, name, resp, script) ==
    IF name \notin DOMAIN deployed_contracts THEN call_not_deployed
    ELSE IF resp = "hash"
    THEN call_method(nonces, sender, WaitOutcome(script).state,
                     WaitOutcome(script).receipt).result
    ELSE call_send_failed(resp)

\* set_sender(sender_index).
SetSender(sender_index) ==
    /\ current_sender' = set_sender(accounts, current_sender, sender_index)
    /\ last' = Last("set_sender", sender_index)
    /\ UNCHANGED <<accounts, nonces, deployed_contracts, pending, histVars>>

\* The node mines a transaction the engine has stopped waiting for.
NodeMine ==
    /\ pending > 0
    /\ pending' = pending - 1
    /\ UNCHANGED <<engineVars, histVars, last, waitVars, codecVars, pureVars,
                   driverVars>>

\* ------------------------------------------------------------ fuzz driver
\* Iterations per method (FUZZ_RUNS).
FuzzRuns == 2

Param(type) == [name |-> "p", param_type |-> type]
Method(name, visibility, special, types) ==
    [name |-> name,
     parameters |-> [i \in 1..Len(types) |-> Param(types[i])],
     visibility |-> visibility,
     is_constructor |-> special = "constructor",
     is_fallback |-> special = "fallback",
     is_receive |-> special = "receive"]

\* The contract surfaces parse_contract hands to fuzz_contract here (it
\* returns one contract for a source).
TokenSurface ==
    [name |-> "Token",
     methods |-> << Method("constructor", "Public", "constructor", <<"Uint256">>),
                    Method("transfer", "Public", "none", <<"Address", "Uint256">>),
                    Method("helper", "Internal", "none", <<"Uint256">>),
                    Method("ping", "External", "none", <<>>),
                    Method("receive", "External", "receive", <<>>) >>]
VaultSurface ==
    [name |-> "Vault",
     methods |-> << Method("set", "Public", "none", <<"Int256">>),
                    Method("cfg", "External", "none", <<"Custom">>),
                    Method("note", "External", "none", <<"String">>) >>]
LibSurface ==
    [name |-> "Vault",
     methods |-> << Method("helper", "Private", "none", <<"Uint256">>),
                    Method("fallback", "External", "fallback", <<>>) >>]
\* A parameter declared `struct p` or `mapping p` parses as Custom.
PoolSurface ==
    [name |-> "Token",
     methods |-> << Method("bind", "External", "none", <<"Address", "Custom">>),
                    Method("index", "Public", "none", <<"Custom">>) >>]
Surfaces == {TokenSurface, VaultSurface, LibSurface, PoolSurface}
NoContract == [name |-> "none", methods |-> <<>>]

\* Variant of Eligible: the visibility is not looked at.
EligibleIgnoringVisibility(method) ==
    /\ ~method.is_constructor
    /\ ~method.is_fallback
    /\ ~method.is_receive

\* The filter of fuzz_contract on contract.methods.
Eligible(method) ==
    /\ method.visibility \in {"Public", "External"}
    /\ ~method.is_constructor
    /\ ~method.is_fallback
    /\ ~method.is_receive
methods_to_test(c) == SelectSeq(c.methods, Eligible)

\* ------------------------------------------------- values and encoding
\* SolidityType, by the name of the variant.
UintTypes == {"Uint8", "Uint16", "Uint32", "Uint64", "Uint128", "Uint256"}
IntTypes == {"Int8", "Int16", "Int32", "Int64", "Int128", "Int256"}
FixedBytesTypes ==
    {"Bytes1", "Bytes2", "Bytes4", "Bytes8", "Bytes16", "Bytes32"}
GeneratedTypes ==
    UintTypes \cup IntTypes \cup FixedBytesTypes
    \cup {"Address", "Bool", "String", "Bytes", "Array"}
SolidityTypes == GeneratedTypes \cup {"Mapping", "Struct", "Custom"}

\* An address as its 40 hexadecimal digits: the first test account, the
\* zero address, format!("0x{:040x}", n).
FirstAccountHex ==
    << 15, 3, 9, 15, 13, 6, 14, 5, 1, 10, 10, 13, 8, 8, 15, 6, 15,
       4, 12, 14, 6, 10, 11, 8, 8, 2, 7, 2, 7, 9, 12, 15, 15, 15,
       11, 9, 2, 2, 6, 6 >>
Hex040(n) ==
    [i \in 1..40 |-> IF i = 40 THEN n % 16
                     ELSE IF i = 39 THEN (n \div 16) % 16
                     ELSE 0]

\* What the generator draws for one parameter: num is the integer it draws
\* (a value, or the one a strategy yields), byte a byte, flag a boolean,
\* text the characters of a string, addr the address its strategy yields.
Draws ==
    { [num |-> 0, byte |-> 0, flag |-> FALSE, text |-> "default",
       addr |-> Hex040(0)],
      [num |-> 16909060, byte |-> 171, flag |-> TRUE, text |-> "abc",
       addr |-> FirstAccountHex] }

\* v.to_string() of a non-negative integer: its decimal digits.
RECURSIVE to_string(_)
to_string(v) == IF v < 10 THEN <<v>> ELSE to_string(v \div 10) \o <<v % 10>>

\* Two's complement wrap of v into a signed type of `bits` bits (bits < 32).
Wrap(v, bits) == ((v + 2 ^ (bits - 1)) % (2 ^ bits)) - 2 ^ (bits - 1)

\* generate_random_value for the types it has an arm for.
Generated(sol_type, draw) ==
    LET signed == IF draw.flag THEN 0 - draw.num ELSE draw.num
        b1 == draw.byte
        b2 == draw.num % 256
        b3 == (draw.num \div 256) % 256
        b4 == (draw.num \div 65536) % 256
        payload ==
          CASE sol_type = "Uint8" -> draw.num % 256
            [] sol_type = "Uint16" -> draw.num % 65536
            [] sol_type \in {"Uint32", "Uint64", "Uint128"} -> draw.num
            [] sol_type = "Uint256" -> to_string(draw.num)
            [] sol_type = "Int8" -> Wrap(signed, 8)
            [] sol_type = "Int16" -> Wrap(signed, 16)
            [] sol_type \in {"Int32", "Int64", "Int128"} -> signed
            [] sol_type = "Int256" ->
                 [negative |-> signed < 0, digits |-> to_string(draw.num)]
            [] sol_type = "Address" -> draw.addr
            [] sol_type = "Bool" -> draw.flag
            [] sol_type = "String" -> draw.text
            [] sol_type = "Bytes" -> [i \in 1..(draw.num % 4) |-> b1]
            [] sol_type = "Array" -> << >>
            [] sol_type = "Bytes1" -> <<b1>>
            [] sol_type = "Bytes2" -> <<b1, b2>>
            [] sol_type = "Bytes4" -> <<b1, b2, b3, b4>>
            [] sol_type = "Bytes8" -> [i \in 1..8 |-> b1]
            [] sol_type = "Bytes16" -> [i \in 1..16 |-> b1]
            [] sol_type = "Bytes32" -> [i \in 1..32 |-> b1]
    IN  [tag |-> sol_type, payload |-> payload]

\* Variant of generate_random_value: the placeholder is the empty string.
generate_random_value_empty_placeholder(sol_type, draw) ==
    IF sol_type \in GeneratedTypes THEN Generated(sol_type, draw)
    ELSE [tag |-> "String", payload |-> ""]

\* generate_random_value: the SolidityValue generated for a type; the last
\* arm (`_`) is the placeholder.
generate_random_value(sol_type, draw) ==
    IF sol_type \in GeneratedTypes THEN Generated(sol_type, draw)
    ELSE [tag |-> "String", payload |-> "default"]

\* matches!(arg, SolidityValue::String(ref s) if s == "default")
IsDefaultString(value) == value.tag = "String" /\ value.payload = "default"

\* Variant of to_be_bytes: the least significant byte comes first.
RECURSIVE to_le_bytes(_, _)
to_le_bytes(v, n) ==
    IF n = 0 THEN << >> ELSE <<v % 256>> \o to_le_bytes(v \div 256, n - 1)

\* v.to_be_bytes() of an unsigned integer of n bytes.
RECURSIVE to_be_bytes(_, _)
to_be_bytes(v, n) ==
    IF n = 0 THEN << >> ELSE Append(to_be_bytes(v \div 256, n - 1), v % 256)

\* let mut bytes = [0u8; 32]; bytes[32 - n..].copy_from_slice(b)
CopyToEnd(b) == [i \in 1..(32 - Len(b)) |-> 0] \o b

\* v.parse::<u128>().unwrap_or(0) of a string of decimal digits.
RECURSIVE parse_u128(_)
parse_u128(digits) ==
    IF digits = << >> THEN 0
    ELSE 10 * parse_u128(SubSeq(digits, 1, Len(digits) - 1))
         + digits[Len(digits)]

\* hex::decode of a string of hexadecimal digits: Err on an odd length.
hex_decode(digits) ==
    IF Len(digits) % 2 = 1 THEN [ok |-> FALSE, bytes |-> << >>]
    ELSE [ok |-> TRUE,
          bytes |-> [i \in 1..(Len(digits) \div 2) |->
                       16 * digits[2 * i - 1] + digits[2 * i]]]

\* The width in bytes of the unsigned types encoded from a native integer.
WidthOf(tag) ==
    CASE tag = "Uint8" -> 1
      [] tag = "Uint16" -> 2
      [] tag = "Uint32" -> 4
      [] tag = "Uint64" -> 8
      [] tag = "Uint128" -> 16

\* The arms of the match of encode_abi_args that return no error.
EncodedTags ==
    {"Uint8", "Uint16", "Uint32", "Uint64", "Uint128", "Uint256", "Address",
     "Bool", "String", "Bytes"}

\* encode_abi_args for one argument: the 32-byte word, or the error.  The
\* word of a Bytes value is its Keccak-256 digest, kept as a term.
encode_word(arg) ==
    LET good(word) == [ok |-> TRUE, word |-> word]
        bad == [ok |-> FALSE, word |-> << >>]
    IN  CASE arg.tag \in {"Uint8", "Uint16", "Uint32", "Uint64", "Uint128"} ->
               good(CopyToEnd(to_be_bytes(arg.payload, WidthOf(arg.tag))))
          [] arg.tag = "Uint256" ->
               good(CopyToEnd(to_be_bytes(parse_u128(arg.payload), 16)))
          [] arg.tag = "Address" ->
               LET decoded == hex_decode(arg.payload)
               IN  IF decoded.ok /\ Len(decoded.bytes) = 20
                   THEN good(CopyToEnd(decoded.bytes))
                   ELSE bad
          [] arg.tag = "Bool" ->
               good(CopyToEnd(<<IF arg.payload THEN 1 ELSE 0>>))
          [] arg.tag = "String" ->
               good(CopyToEnd(to_be_bytes(Len(arg.payload), 8)))
          [] arg.tag = "Bytes" ->
               good([i \in 1..32 |-> <<"keccak256", arg.payload, i>>])
          [] OTHER -> bad

\* encode_abi_args: Ok with the words of the arguments one after the other,
\* or the error of the first argument that has one.
RECURSIVE encode_abi_args(_)
encode_abi_args(args) ==
    IF args = << >> THEN [ok |-> TRUE, bytes |-> << >>]
    ELSE LET first == encode_word(Head(args))
             rest == encode_abi_args(Tail(args))
         IN  IF first.ok /\ rest.ok
             THEN [ok |-> TRUE, bytes |-> first.word \o rest.bytes]
             ELSE [ok |-> FALSE, bytes |-> << >>]

\* Variant of parse_type_from_string: the alias `uint` is not known.
parse_type_from_string_no_alias(type_str) ==
    CASE type_str = "uint8" -> "Uint8"
      [] type_str = "uint16" -> "Uint16"
      [] type_str = "uint32" -> "Uint32"
      [] type_str = "uint64" -> "Uint64"
      [] type_str = "uint128" -> "Uint128"
      [] type_str = "uint256" -> "Uint256"
      [] type_str = "int8" -> "Int8"
      [] type_str = "int16" -> "Int16"
      [] type_str = "int32" -> "Int32"
      [] type_str = "int64" -> "Int64"
      [] type_str = "int128" -> "Int128"
      [] type_str \in {"int256", "int"} -> "Int256"
      [] type_str = "address" -> "Address"
      [] type_str = "bool" -> "Bool"
      [] type_str = "string" -> "String"
      [] type_str = "bytes" -> "Bytes"
      [] OTHER -> "Custom"

\* parse_type_from_string: the SolidityType of a type token.
parse_type_from_string(type_str) ==
    CASE type_str = "uint8" -> "Uint8"
      [] type_str = "uint16" -> "Uint16"
      [] type_str = "uint32" -> "Uint32"
      [] type_str = "uint64" -> "Uint64"
      [] type_str = "uint128" -> "Uint128"
      [] type_str \in {"uint256", "uint"} -> "Uint256"
      [] type_str = "int8" -> "Int8"
      [] type_str = "int16" -> "Int16"
      [] type_str = "int32" -> "Int32"
      [] type_str = "int64" -> "Int64"
      [] type_str = "int128" -> "Int128"
      [] type_str \in {"int256", "int"} -> "Int256"
      [] type_str = "address" -> "Address"
      [] type_str = "bool" -> "Bool"
      [] type_str = "string" -> "String"
      [] type_str = "bytes" -> "Bytes"
      [] OTHER -> "Custom"

\* solidity_value_to_type_string
solidity_value_to_type_string(value) ==
    CASE value.tag = "Uint8" -> "uint8"
      [] value.tag = "Uint16" -> "uint16"
      [] value.tag = "Uint32" -> "uint32"
      [] value.tag = "Uint64" -> "uint64"
      [] value.tag = "Uint128" -> "uint128"
      [] value.tag = "Uint256" -> "uint256"
      [] value.tag = "Int8" -> "int8"
      [] value.tag = "Int16" -> "int16"
      [] value.tag = "Int32" -> "int32"
      [] value.tag = "Int64" -> "int64"
      [] value.tag = "Int128" -> "int128"
      [] value.tag = "Int256" -> "int256"
      [] value.tag = "Address" -> "address"
      [] value.tag = "Bool" -> "bool"
      [] value.tag = "String" -> "string"
      [] value.tag = "Bytes" -> "bytes"
      [] value.tag = "Bytes1" -> "bytes1"
      [] value.tag = "Bytes2" -> "bytes2"
      [] value.tag = "Bytes4" -> "bytes4"
      [] value.tag = "Bytes8" -> "bytes8"
      [] value.tag = "Bytes16" -> "bytes16"
      [] value.tag = "Bytes32" -> "bytes32"
      [] value.tag = "Array" -> "uint256[]"
      [] value.tag = "Struct" -> "tuple"

\* param_types.join(",")
RECURSIVE join(_, _)
join(strings, separator) ==
    IF strings = << >> THEN ""
    ELSE IF Len(strings) = 1 THEN strings[1]
    ELSE strings[1] \o separator \o join(Tail(strings), separator)

\* build_method_signature: format!("{}({})", method_name, types.join(","))
build_method_signature(method_name, args) ==
    method_name \o "("
    \o join([i \in 1..Len(args) |-> solidity_value_to_type_string(args[i])],
            ",")
    \o ")"

\* Variant of sender_index: the pick is of gen_range(2..=num_accounts).
sender_index_shifted(num_accounts, roll, pick) ==
    IF num_accounts > 1 /\ roll < 70 THEN pick + 1 ELSE 0

\* The sender index fuzz_contract selects: roll is gen_range(0..100), pick
\* is gen_range(1..num_accounts).
sender_index(num_accounts, roll, pick) ==
    IF num_accounts > 1 /\ roll < 70 THEN pick ELSE 0
Rolls == {69, 70}

\* Variant of execute_test_case_evm: an Ok from call_method is a pass.
execute_test_case_evm_ok_passes(encoded, res) ==
    IF ~encoded THEN [test |-> "Failed", error |-> "ABI encoding failed"]
    ELSE IF res.ok THEN [test |-> "Passed", error |-> "none"]
    ELSE [test |-> "Failed", error |-> "EVM execution failed"]

\* Variant of execute_test_case_evm: an Err from call_method is dropped.
execute_test_case_evm_err_passes(encoded, res) ==
    IF ~encoded THEN [test |-> "Failed", error |-> "ABI encoding failed"]
    ELSE IF res.ok
    THEN IF res.success THEN [test |-> "Passed", error |-> "none"]
         ELSE [test |-> "Failed", error |-> res.error]
    ELSE [test |-> "Passed", error |-> "none"]

\* execute_test_case_evm: the TestResult, from whether encode_abi_args
\* returned Ok and from what call_method then returned.
execute_test_case_evm(encoded, res) ==
    IF ~encoded THEN [test |-> "Failed", error |-> "ABI encoding failed"]
    ELSE IF res.ok
    THEN IF res.success THEN [test |-> "Passed", error |-> "none"]
         ELSE [test |-> "Failed", error |-> res.error]
    ELSE [test |-> "Failed", error |-> "EVM execution failed"]

\* Variant of NextMethod: a method without parameters is run like any other.
NextMethodAny(methods, from) ==
    IF from < Len(methods) /\ FuzzRuns > 0 THEN from + 1 ELSE 0

\* The first method of `methods` after position `from` that the loop of
\* fuzz_contract runs iterations for (it has parameters), or 0.
NextMethod(methods, from) ==
    LET later == { j \in (from + 1)..Len(methods) :
                     methods[j].parameters # <<>> /\ FuzzRuns > 0 }
    IN  IF later = {} THEN 0
        ELSE CHOOSE j \in later : \A k \in later : j <= k

NoIter == [outcome |-> "none", error |-> "none", sent |-> "not_sent",
           waitState |-> "none", status |-> "absent", sender |-> "none",
           index |-> -1, mode |-> "none", method |-> "none"]

\* What a deployment met at the node: the answer to eth_sendTransaction,
\* how the wait ended, the status and contractAddress of the receipt.
NoMet == [sent |-> "not_sent", waitState |-> "none", status |-> "absent",
          address |-> NoAddr]
Met(node) ==
    LET w == IF node.resp = "hash" THEN WaitOutcome(node.script) ELSE NoWait
    IN  [sent |-> node.resp, waitState |-> w.state,
         status |-> w.receipt.status, address |-> w.receipt.contract_address]

\* No parameter list is being taken through the generator and the encoder.
NoEncoding == [ok |-> FALSE, bytes |-> << >>]
CodecIdle ==
    /\ cpc = "idle"
    /\ type_tokens = << >>
    /\ param_types = << >>
    /\ mock_args = << >>
    /\ encoded_args = NoEncoding
    /\ method_signature = ""

\* No function of the harness is being applied on its own.
PureIdle ==
    /\ fpc = "idle"
    /\ input = << >>
    /\ output = << >>

DriverIdle ==
    /\ dpc = "idle"
    /\ contract = NoContract
    /\ mi = 0
    /\ iter = 0
    /\ total_passed = 0
    /\ total_failed = 0
    /\ total_skipped = 0
    /\ method_passed = 0
    /\ method_failed = 0
    /\ method_skipped = 0
    /\ iterations = 0
    /\ errors = 0
    /\ lastIter = NoIter
    /\ bytecode = "unset"
    /\ calledMethods = {}
    /\ deployMet = NoMet

\* --------------------------------------------- the engine under any caller
\* Indexes a caller may pass to set_sender: every valid one and one beyond.
SenderIndexes == 0..MaxFunded

CountAnswers == [ok : BOOLEAN, count : 0..MaxSeed]

EngineInit(balanceOk, countOf) ==
    LET e == new(balanceOk, countOf)
        zero == [a \in Range(e.accounts) |-> 0]
    IN  /\ e.ok
        /\ accounts = e.accounts
        /\ current_sender = e.current_sender
        /\ nonces = e.nonces
        /\ deployed_contracts = e.deployed_contracts
        /\ seeded = e.nonces
        /\ pending = 0
        /\ broadcast = zero
        /\ deploysReturned = zero
        /\ callsReceipted = zero
        /\ successAddrs = [n \in ContractNames |-> {}]
        /\ last = Last("none", 0)

WaitIdle ==
    /\ wpc = "idle"
    /\ attempts = 0
    /\ queries = 0
    /\ nullAnswers = 0
    /\ lastAnswer = "none"

Init ==
    /\ \E balanceOk \in { 1..k : k \in 0..MaxFunded } :
          \E countOf \in [1..MaxFunded -> CountAnswers] :
              EngineInit(balanceOk, countOf)
    /\ WaitIdle
    /\ DriverIdle
    /\ CodecIdle
    /\ PureIdle

ApiDeploy ==
    /\ Broadcast < MaxTx
    /\ \E name \in ContractNames : \E node \in NodeBehaviours :
          /\ DeployContract(current_sender, name, node.resp, node.script)
          /\ UNCHANGED <<current_sender, waitVars, codecVars, pureVars, driverVars>>
ApiCall ==
    /\ Broadcast < MaxTx
    /\ \E name \in ContractNames : \E node \in CallBehaviours :
          /\ CallMethod(current_sender, name, node.resp, node.script)
          /\ UNCHANGED <<current_sender, waitVars, codecVars, pureVars, driverVars>>
ApiSetSender ==
    \E i \in SenderIndexes :
        SetSender(i) /\ UNCHANGED <<waitVars, codecVars, pureVars, driverVars>>

Next == ApiDeploy \/ ApiCall \/ ApiSetSender

Spec == Init /\ [][Next]_vars

\* ------------------------------------------------ AnvilForkExecutor::new
\* Before new() is called there is no engine.
NoEngine ==
    /\ accounts = << >>
    /\ current_sender = "none"
    /\ nonces = << >>
    /\ deployed_contracts = << >>
    /\ seeded = << >>
    /\ pending = 0
    /\ broadcast = << >>
    /\ deploysReturned = << >>
    /\ callsReceipted = << >>
    /\ successAddrs = [n \in ContractNames |-> {}]
    /\ last = Last("none", 0)

NewInit == NoEngine /\ WaitIdle /\ DriverIdle /\ CodecIdle /\ PureIdle

\* new(rpc_url) against a node that answers the balance probe of the list
\* positions in balanceOk and the count query of position i with countOf[i].
\* `last` keeps what the node answered and whether new returned Ok.
Construct(balanceOk, countOf) ==
    LET e == new(balanceOk, countOf)
        zero == [a \in Range(e.accounts) |-> 0]
    IN  /\ last.op = "none"
        /\ accounts = << >>
        /\ last' = Last("new", [probed |-> balanceOk, counted |-> countOf,
                                ok |-> e.ok])
        /\ IF e.ok
           THEN /\ accounts' = e.accounts
                /\ current_sender' = e.current_sender
                /\ nonces' = e.nonces
                /\ deployed_contracts' = e.deployed_contracts
                /\ seeded' = e.nonces
                /\ broadcast' = zero
                /\ deploysReturned' = zero
                /\ callsReceipted' = zero
           ELSE UNCHANGED <<engineVars, seeded, broadcast, deploysReturned,
                            callsReceipted>>
        /\ UNCHANGED <<pending, successAddrs, waitVars, codecVars, pureVars,
                       driverVars>>

Positions == 1..Len(anvil_accounts)

NewNext ==
    /\ last.op = "none"
    /\ \E balanceOk \in SUBSET Positions :
          \E countOf \in [Positions -> CountAnswers] :
              Construct(balanceOk, countOf)

NewSpec == NewInit /\ [][NewNext]_vars

\* ------------------------------------------ wait_for_transaction alone
\* One receipt query of wait_for_transaction and the node's answer to it.
WaitPoll(ans) ==
    /\ wpc = "polling"
    /\ LET w == wait_for_transaction(attempts, ans)
       IN  /\ wpc' = w.state
           /\ attempts' = w.attempts
    /\ queries' = queries + 1
    /\ nullAnswers' = IF ans.kind = "null" THEN nullAnswers + 1
                      ELSE nullAnswers
    /\ lastAnswer' = ans.kind
    /\ UNCHANGED <<engineVars, pending, histVars, last, driverVars,
                   codecVars, pureVars>>

\* wait_for_transaction has just been called (`let mut attempts = 0`).
WaitInit ==
    /\ \E balanceOk \in { 1..k : k \in 0..MaxFunded } :
          \E countOf \in [1..MaxFunded -> CountAnswers] :
              EngineInit(balanceOk, countOf)
    /\ wpc = "polling"
    /\ attempts = 0
    /\ queries = 0
    /\ nullAnswers = 0
    /\ lastAnswer = "none"
    /\ DriverIdle
    /\ CodecIdle
    /\ PureIdle

WaitNext == \E ans \in PollAnswers : WaitPoll(ans)

WaitSpec == WaitInit /\ [][WaitNext]_vars

\* Every HTTP request returns: a pending query is answered.
FairWaitSpec == WaitSpec /\ WF_vars(WaitNext)

\* --------------------------------------------------------- fuzz_contract
\* fuzz_contract from its call to the end of the deployment: the parse, the
\* compilation (compiled: it returned Ok), the constructor arguments
\* (ctor: they were obtained and encoded, or none are needed), the
\* deployment, the filter of the methods.
FuzzStart(c, compiled, ctor, node) ==
    LET res == DeployResult(current_sender, c.name, node.resp, node.script)
        first == NextMethod(methods_to_test(c), 0)
    IN  /\ dpc = "idle"
        /\ contract' = c
        /\ bytecode' = IF compiled THEN "some" ELSE "none"
        /\ IF compiled /\ ctor
           THEN /\ DeployContract(current_sender, c.name, node.resp,
                                  node.script)
                /\ deployMet' = Met(node)
                /\ dpc' = IF ~res.ok THEN "err"
                          ELSE IF first = 0 THEN "ok" ELSE "fuzz"
                /\ mi' = IF res.ok THEN first ELSE 0
           ELSE /\ dpc' = "err"
                /\ mi' = 0
                /\ UNCHANGED <<accounts, nonces, deployed_contracts, pending,
                               histVars, last, deployMet>>
        /\ UNCHANGED <<current_sender, waitVars, codecVars, pureVars, iter,
                       total_passed, total_failed, total_skipped, method_passed,
                       method_failed, method_skipped, iterations, errors,
                       lastIter, calledMethods>>

\* The end of one iteration: the counters of the method, and at the end of
\* the method the totals, the next method, the return of fuzz_contract.
Tally(test) ==
    LET p == method_passed + (IF test = "Passed" THEN 1 ELSE 0)
        f == method_failed + (IF test = "Failed" THEN 1 ELSE 0)
        k == method_skipped + (IF test = "Skipped" THEN 1 ELSE 0)
        next == NextMethod(methods_to_test(contract), mi)
    IN  /\ iterations' = iterations + 1
        /\ IF iter + 1 < FuzzRuns
           THEN /\ iter' = iter + 1
                /\ method_passed' = p
                /\ method_failed' = f
                /\ method_skipped' = k
                /\ UNCHANGED <<mi, dpc, total_passed, total_failed,
                               total_skipped>>
           ELSE /\ iter' = 0
                /\ method_passed' = 0
                /\ method_failed' = 0
                /\ method_skipped' = 0
                /\ total_passed' = total_passed + p
                /\ total_failed' = total_failed + f
                /\ total_skipped' = total_skipped + k
                /\ mi' = next
                /\ dpc' = IF next = 0 THEN "ok" ELSE "fuzz"

\* One iteration of the loop `for i in 0..num_fuzz_runs`: args are the
\* generated arguments (mock_args), encoded tells whether encode_abi_args
\* returns Ok for them, roll and pick are the draws of the sender rotation,
\* node the node's part in the transaction.
Iterate(args, encoded, roll, pick, node) ==
    LET method == methods_to_test(contract)[mi]
        skip == \E i \in 1..Len(args) : IsDefaultString(args[i])
        index == sender_index(Len(accounts), roll, pick)
        sender == set_sender(accounts, current_sender, index)
        res == CallResult(sender, contract.name, node.resp, node.script)
        t == execute_test_case_evm(encoded, res)
        w == IF node.resp = "hash" THEN WaitOutcome(node.script) ELSE NoWait
    IN  /\ dpc = "fuzz"
        /\ IF skip
           THEN /\ Tally("Skipped")
                /\ lastIter' = [NoIter EXCEPT !.method = method.name,
                                               !.outcome = "Skipped"]
                /\ UNCHANGED <<engineVars, pending, histVars, last, errors,
                               calledMethods>>
           ELSE /\ current_sender' = sender
                /\ Tally(t.test)
                /\ IF encoded
                   THEN /\ CallMethod(sender, contract.name, node.resp,
                                      node.script)
                        /\ calledMethods' = calledMethods \cup {method.name}
                        /\ lastIter' =
                             [outcome |-> t.test, error |-> t.error,
                              sent |-> node.resp, waitState |-> w.state,
                              status |-> w.receipt.status, sender |-> sender,
                              index |-> index, mode |-> "evm",
                              method |-> method.name]
                        /\ errors' =
                             IF /\ node.resp = "hash"
                                /\ w.state = "receipt"
                                /\ w.receipt.status \in {"0x1", "1"}
                             THEN errors ELSE errors + 1
                   ELSE /\ last' = Last("set_sender", index)
                        /\ lastIter' =
                             [NoIter EXCEPT !.method = method.name,
                                            !.outcome = t.test,
                                            !.error = t.error,
                                            !.sender = sender,
                                            !.index = index]
                        /\ errors' = errors + 1
                        /\ UNCHANGED <<accounts, nonces, deployed_contracts,
                                       pending, histVars, calledMethods>>
        /\ UNCHANGED <<contract, bytecode, deployMet, waitVars, codecVars, pureVars>>

DriverStart ==
    /\ dpc = "idle"
    /\ \E c \in Surfaces : \E compiled \in BOOLEAN : \E ctor \in BOOLEAN :
          \E node \in NodeBehaviours : FuzzStart(c, compiled, ctor, node)

\* What an iteration asks of the random generator and of the node after
\* its arguments are generated: nothing when it is skipped (`continue`
\* comes before the sender rotation), no pick when the roll keeps the first
\* account, and nothing of the node when the encoding fails.
Unasked == [resp |-> "no_response", script |-> NoScript]
SenderDraws(skip) ==
    IF skip THEN { <<70, 1>> }
    ELSE { <<70, 1>> }
         \cup { <<69, pick>> :
                  pick \in 1..(IF Len(accounts) > 1 THEN Len(accounts) - 1
                               ELSE 1) }
NodeDraws(asked) == IF asked THEN CallBehaviours ELSE { Unasked }

DriverIterate ==
    /\ dpc = "fuzz"
    /\ \E draws \in [1..Len(methods_to_test(contract)[mi].parameters) -> Draws] :
          LET method == methods_to_test(contract)[mi]
              generated == [i \in 1..Len(method.parameters) |->
                               generate_random_value(
                                   method.parameters[i].param_type, draws[i])]
          IN  \E args \in { generated } :
              \E skip \in { \E i \in 1..Len(args) : IsDefaultString(args[i]) } :
              \E encoded \in { encode_abi_args(args).ok } :
              \E sd \in SenderDraws(skip) :
              \E node \in NodeDraws(~skip /\ encoded) :
                  Iterate(args, encoded, sd[1], sd[2], node)

\* The engine a session starts with: new() against a node that answers the
\* nonce query of every account alike.
DriverInit ==
    /\ \E balanceOk \in { 1..k : k \in 0..MaxFunded } :
          \E answer \in CountAnswers :
              EngineInit(balanceOk, [i \in 1..MaxFunded |-> answer])
    /\ WaitIdle
    /\ DriverIdle
    /\ CodecIdle
    /\ PureIdle

DriverNext == DriverStart \/ DriverIterate \/ NodeMine

DriverSpec == DriverInit /\ [][DriverNext]_vars

\* ------------------------------------------- fuzz_contract of Horizen-POC
\* The engine of Horizen-POC is taken to be the AnvilForkExecutor above.

\* execute_test_case_simulated: what it returns is drawn by the generator
\* alone (sim: whether the draw falls under the success rate).
SimOutcomes == {"Passed", "Failed"}
execute_test_case_simulated(sim) ==
    [test |-> sim,
     error |-> IF sim = "Passed" THEN "none" ELSE "simulated failure"]

\* execute_test_case_evm of Horizen-POC: an Err of call_method falls back
\* to the simulation.
horizen_execute_test_case_evm(encoded, res, sim) ==
    IF ~encoded THEN [test |-> "Failed", error |-> "ABI encoding failed"]
    ELSE IF res.ok
    THEN IF res.success THEN [test |-> "Passed", error |-> "none"]
         ELSE [test |-> "Failed", error |-> res.error]
    ELSE execute_test_case_simulated(sim)

\* fuzz_contract of Horizen-POC up to the filter of the methods.  After a
\* compilation error the bytecode is None and nothing is deployed; the
\* constructor arguments, when they cannot be had, are left out.
HorizenStart(c, compiled, node) ==
    LET res == DeployResult(current_sender, c.name, node.resp, node.script)
        first == NextMethod(methods_to_test(c), 0)
    IN  /\ dpc = "idle"
        /\ contract' = c
        /\ bytecode' = IF compiled THEN "some" ELSE "none"
        /\ IF compiled
           THEN /\ DeployContract(current_sender, c.name, node.resp,
                                  node.script)
                /\ deployMet' = Met(node)
                /\ dpc' = IF ~res.ok THEN "err"
                          ELSE IF first = 0 THEN "ok" ELSE "fuzz"
                /\ mi' = IF res.ok THEN first ELSE 0
           ELSE /\ dpc' = IF first = 0 THEN "ok" ELSE "fuzz"
                /\ mi' = first
                /\ UNCHANGED <<accounts, nonces, deployed_contracts, pending,
                               histVars, last, deployMet>>
        /\ UNCHANGED <<current_sender, waitVars, codecVars, pureVars, iter,
                       total_passed, total_failed, total_skipped, method_passed,
                       method_failed, method_skipped, iterations, errors,
                       lastIter, calledMethods>>

\* One iteration of the loop of Horizen-POC: with bytecode the case is
\* executed on the node, without it the case is simulated.
HorizenIterate(draws, node, sim) ==
    LET method == methods_to_test(contract)[mi]
        args == [i \in 1..Len(method.parameters) |->
                   generate_random_value(method.parameters[i].param_type,
                                         draws[i])]
        skip == \E i \in 1..Len(args) : IsDefaultString(args[i])
        encoded == encode_abi_args(args).ok
        res == CallResult(current_sender, contract.name, node.resp,
                          node.script)
        t == horizen_execute_test_case_evm(encoded, res, sim)
        w == IF node.resp = "hash" THEN WaitOutcome(node.script) ELSE NoWait
    IN  /\ dpc = "fuzz"
        /\ IF skip
           THEN /\ Tally("Skipped")
                /\ lastIter' = [NoIter EXCEPT !.method = method.name,
                                               !.outcome = "Skipped"]
                /\ UNCHANGED <<engineVars, pending, histVars, last,
                               calledMethods>>
           ELSE IF bytecode = "some"
           THEN /\ Tally(t.test)
                /\ IF encoded
                   THEN /\ CallMethod(current_sender, contract.name,
                                      node.resp, node.script)
                        /\ calledMethods' = calledMethods \cup {method.name}
                        /\ lastIter' =
                             [outcome |-> t.test, error |-> t.error,
                              sent |-> node.resp, waitState |-> w.state,
                              status |-> w.receipt.status,
                              sender |-> current_sender,
                              index |-> NoIter.index,
                              mode |-> IF res.ok THEN "evm"
                                       ELSE "simulated",
                              method |-> method.name]
                   ELSE /\ lastIter' =
                             [NoIter EXCEPT !.method = method.name,
                                            !.outcome = t.test,
                                            !.error = t.error,
                                            !.mode = "evm"]
                        /\ UNCHANGED <<accounts, nonces, deployed_contracts,
                                       pending, histVars, last,
                                       calledMethods>>
                /\ UNCHANGED current_sender
           ELSE /\ Tally(execute_test_case_simulated(sim).test)
                /\ lastIter' =
                     [NoIter EXCEPT !.method = method.name,
                        !.outcome = execute_test_case_simulated(sim).test,
                        !.error = execute_test_case_simulated(sim).error,
                        !.mode = "simulated"]
                /\ UNCHANGED <<engineVars, pending, histVars, last,
                               calledMethods>>
        /\ UNCHANGED <<contract, bytecode, deployMet, errors, waitVars,
                       codecVars, pureVars>>

HorizenFuzzStart ==
    /\ dpc = "idle"
    /\ \E c \in Surfaces : \E compiled \in BOOLEAN :
          \E node \in NodeBehaviours : HorizenStart(c, compiled, node)
HorizenFuzzIterate ==
    /\ dpc = "fuzz"
    /\ \E draws \in [1..Len(methods_to_test(contract)[mi].parameters) -> Draws] :
          \E node \in CallBehaviours : \E sim \in SimOutcomes :
              HorizenIterate(draws, node, sim)

HorizenNext == HorizenFuzzStart \/ HorizenFuzzIterate \/ NodeMine

HorizenSpec == DriverInit /\ [][HorizenNext]_vars

\* ------------------------------------------------------- text as characters
\* A Rust string is the sequence of its characters.  The words the lines of
\* a source file are made of here, spelled out.
Spelling ==
    [ uint8 |-> <<"u", "i", "n", "t", "8">>,
      uint16 |-> <<"u", "i", "n", "t", "1", "6">>,
      uint32 |-> <<"u", "i", "n", "t", "3", "2">>,
      uint64 |-> <<"u", "i", "n", "t", "6", "4">>,
      uint128 |-> <<"u", "i", "n", "t", "1", "2", "8">>,
      uint256 |-> <<"u", "i", "n", "t", "2", "5", "6">>,
      uint |-> <<"u", "i", "n", "t">>,
      int8 |-> <<"i", "n", "t", "8">>,
      int16 |-> <<"i", "n", "t", "1", "6">>,
      int32 |-> <<"i", "n", "t", "3", "2">>,
      int64 |-> <<"i", "n", "t", "6", "4">>,
      int128 |-> <<"i", "n", "t", "1", "2", "8">>,
      int256 |-> <<"i", "n", "t", "2", "5", "6">>,
      int |-> <<"i", "n", "t">>,
      address |-> <<"a", "d", "d", "r", "e", "s", "s">>,
      bool |-> <<"b", "o", "o", "l">>,
      string |-> <<"s", "t", "r", "i", "n", "g">>,
      bytes |-> <<"b", "y", "t", "e", "s">>,
      bytes32 |-> <<"b", "y", "t", "e", "s", "3", "2">>,
      memory |-> <<"m", "e", "m", "o", "r", "y">>,
      function |-> <<"f", "u", "n", "c", "t", "i", "o", "n">>,
      public |-> <<"p", "u", "b", "l", "i", "c">>,
      external |-> <<"e", "x", "t", "e", "r", "n", "a", "l">>,
      internal |-> <<"i", "n", "t", "e", "r", "n", "a", "l">>,
      private |-> <<"p", "r", "i", "v", "a", "t", "e">>,
      set |-> <<"s", "e", "t">>,
      republic |-> <<"r", "e", "p", "u", "b", "l", "i", "c">>,
      onlyexternal |->
          <<"o", "n", "l", "y", "e", "x", "t", "e", "r", "n", "a", "l">>,
      view |-> <<"v", "i", "e", "w">>,
      a |-> <<"a">>,
      b |-> <<"b">>,
      s |-> <<"s">>,
      to |-> <<"t", "o">>,
      constructor |->
          <<"c", "o", "n", "s", "t", "r", "u", "c", "t", "o", "r">>,
      fallback |-> <<"f", "a", "l", "l", "b", "a", "c", "k">>,
      receive |-> <<"r", "e", "c", "e", "i", "v", "e">> ]

\* The word a sequence of characters spells; "?" for any other text.
Text(chars) ==
    IF \E w \in DOMAIN Spelling : Spelling[w] = chars
    THEN CHOOSE w \in DOMAIN Spelling : Spelling[w] = chars
    ELSE "?"

\* The characters with the property White_Space, which str::trim and
\* str::split_whitespace take for whitespace.  A character that cannot be
\* written in a string here is the one element "U+" and its code point.
Whitespace ==
    {" ", "\t", "\n", "\r", "\f", "U+000B", "U+0085", "U+00A0", "U+1680",
     "U+2000", "U+2001", "U+2002", "U+2003", "U+2004", "U+2005", "U+2006",
     "U+2007", "U+2008", "U+2009", "U+200A", "U+2028", "U+2029", "U+202F",
     "U+205F", "U+3000"}

\* str::contains and str::starts_with on a pattern.
contains(text, pattern) ==
    \E i \in 1..(Len(text) - Len(pattern) + 1) :
        SubSeq(text, i, i + Len(pattern) - 1) = pattern
starts_with(text, pattern) ==
    Len(text) >= Len(pattern) /\ SubSeq(text, 1, Len(pattern)) = pattern

\* str::find on a character: the first position, 0 for None.
find(text, ch) ==
    IF \E i \in 1..Len(text) : text[i] = ch
    THEN CHOOSE i \in 1..Len(text) :
            text[i] = ch /\ \A j \in 1..(i - 1) : text[j] # ch
    ELSE 0

\* str::trim.
RECURSIVE trim(_)
trim(text) ==
    IF text = << >> THEN text
    ELSE IF text[1] \in Whitespace THEN trim(Tail(text))
    ELSE IF text[Len(text)] \in Whitespace
    THEN trim(SubSeq(text, 1, Len(text) - 1))
    ELSE text

\* str::split on a character: the pieces between the separators.
RECURSIVE split(_, _)
split(text, sep) ==
    LET i == find(text, sep)
    IN  IF i = 0 THEN <<text>>
        ELSE <<SubSeq(text, 1, i - 1)>>
             \o split(SubSeq(text, i + 1, Len(text)), sep)

\* str::split_whitespace: the maximal runs without whitespace.
RECURSIVE split_whitespace(_)
split_whitespace(text) ==
    IF text = << >> THEN << >>
    ELSE IF text[1] \in Whitespace THEN split_whitespace(Tail(text))
    ELSE LET ends == { i \in 1..Len(text) : text[i] \in Whitespace }
             stop == IF ends = {} THEN Len(text) + 1
                     ELSE CHOOSE i \in ends : \A j \in ends : i <= j
         IN  <<SubSeq(text, 1, stop - 1)>>
             \o split_whitespace(SubSeq(text, stop, Len(text)))

\* The characters of a string literal, and the string of some characters.
Chars(str) == [i \in 1..Len(str) |-> SubSeq(str, i, i)]
RECURSIVE String(_)
String(chars) ==
    IF chars = << >> THEN "" ELSE chars[1] \o String(Tail(chars))

\* str::replace of one character by another.
replace(text, from, to) ==
    [i \in 1..Len(text) |-> IF text[i] = from THEN to ELSE text[i]]

\* str::split on a pattern of several characters.
RECURSIVE split_str(_, _)
split_str(text, pattern) ==
    LET starts == { k \in 1..(Len(text) - Len(pattern) + 1) :
                      SubSeq(text, k, k + Len(pattern) - 1) = pattern }
        i == IF starts = {} THEN 0
             ELSE CHOOSE k \in starts : \A other \in starts : k <= other
    IN  IF i = 0 THEN <<text>>
        ELSE <<SubSeq(text, 1, i - 1)>>
             \o split_str(SubSeq(text, i + Len(pattern), Len(text)), pattern)

\* ----------------------------------------------------- the line parser
\* A panic of the thread that parses.
Panic == [panic |-> TRUE]

\* &line[params_start + 1..params_end] panics when both characters are
\* found and the first `)` comes before the first `(`.
slice_panics(line) ==
    /\ find(line, "(") # 0
    /\ find(line, ")") # 0
    /\ find(line, ")") < find(line, "(")

\* extract_parameters_from_line: the fragments between the first `(` and
\* the first `)`, split on commas; a fragment of at least two words gives a
\* parameter of the type of the first word, named by the second.
extract_parameters_from_line(line) ==
    IF slice_panics(line) THEN Panic ELSE
    LET params_start == find(line, "(")
        params_end == find(line, ")")
        params_str == SubSeq(line, params_start + 1, params_end - 1)
        pieces == split(params_str, ",")
        parts == [i \in 1..Len(pieces) |-> split_whitespace(trim(pieces[i]))]
        kept == SelectSeq(parts, LAMBDA p : Len(p) >= 2)
    IN  IF params_start = 0 \/ params_end = 0 \/ trim(params_str) = << >>
        THEN << >>
        ELSE [i \in 1..Len(kept) |->
                [name |-> Text(kept[i][2]),
                 param_type |-> parse_type_from_string(Text(kept[i][1]))]]

\* The visibility parse_method_from_line determines: the chain of
\* line.contains tests.
VisibilityOf(line) ==
    IF contains(line, Spelling.public) THEN "Public"
    ELSE IF contains(line, Spelling.external) THEN "External"
    ELSE IF contains(line, Spelling.internal) THEN "Internal"
    ELSE IF contains(line, Spelling.private) THEN "Private"
    ELSE "Public"

\* parse_method_from_line.
parse_method_from_line(line) ==
    IF slice_panics(line) THEN Panic ELSE
    LET is_constructor == starts_with(line, Spelling.constructor)
        is_fallback == starts_with(line, Spelling.fallback)
        is_receive == starts_with(line, Spelling.receive)
        words == split_whitespace(split(line, "(")[1])
    IN  [name |-> IF is_constructor THEN "constructor"
                  ELSE IF is_fallback THEN "fallback"
                  ELSE IF is_receive THEN "receive"
                  ELSE IF words = << >> THEN "unknown"
                  ELSE Text(words[Len(words)]),
         parameters |-> extract_parameters_from_line(line),
         visibility |-> VisibilityOf(line),
         is_constructor |-> is_constructor,
         is_fallback |-> is_fallback,
         is_receive |-> is_receive]

\* ------------------------------------------- one source line, parsed
\* The method lines of a source file: a head (`function` and a name, or
\* `constructor`), the parameter fragments between parentheses, the declared
\* visibility keyword if any, and a modifier if any.
RECURSIVE Joined(_)
Joined(fragments) ==
    IF fragments = << >> THEN << >>
    ELSE IF Len(fragments) = 1 THEN fragments[1]
    ELSE fragments[1] \o <<",", " ">> \o Joined(Tail(fragments))

SourceLine(name, fragments, keyword, modifier) ==
    (IF name = Spelling.constructor THEN name
     ELSE Spelling.function \o <<" ">> \o name)
    \o <<"(">> \o Joined(fragments) \o <<")">>
    \o (IF keyword = << >> THEN << >> ELSE <<" ">> \o keyword)
    \o (IF modifier = << >> THEN << >> ELSE <<" ">> \o modifier)
    \o <<" ", "{">>

SourceLines ==
    LET fragments ==
          { Spelling.uint256 \o <<" ">> \o Spelling.a,
            Spelling.address,
            Spelling.bool \o <<" ">> \o Spelling.b,
            Spelling.string \o <<" ">> \o Spelling.memory \o <<" ">>
                \o Spelling.s }
    IN  { indent \o SourceLine(n, f, k, m) :
            indent \in {<<" ", " ">>, <<"\f", "\t">>},
            n \in {Spelling.set, Spelling.republic, Spelling.constructor},
            f \in UNION { [1..i -> fragments] : i \in 0..MaxArgs },
            k \in {<< >>, Spelling.public, Spelling.external,
                   Spelling.internal, Spelling.private},
            m \in {<< >>, Spelling.view, Spelling.onlyexternal} }
        \cup { Chars("function set) (uint256 a) public {"),
               Chars(") function set(uint256 a") }

\* The lines extract_methods hands to parse_method_from_line.
IsMethodLine(line) ==
    \/ starts_with(line, Spelling.function \o <<" ">>)
    \/ starts_with(line, Spelling.constructor)
    \/ starts_with(line, Spelling.fallback)
    \/ starts_with(line, Spelling.receive)

ParserInit ==
    /\ NoEngine /\ WaitIdle /\ DriverIdle /\ CodecIdle
    /\ fpc = "line"
    /\ input \in SourceLines
    /\ output = << >>

\* One turn of the loop of extract_methods: the line trimmed, and parsed if
\* it is a method line; any other line is passed over.
ExtractMethod ==
    /\ fpc = "line"
    /\ IF IsMethodLine(trim(input))
       THEN /\ output' = parse_method_from_line(trim(input))
            /\ fpc' = IF slice_panics(trim(input)) THEN "panicked"
                       ELSE "parsed"
       ELSE /\ output' = output
            /\ fpc' = "ignored"
    /\ UNCHANGED <<engineVars, pending, histVars, last, waitVars, driverVars,
                   codecVars, input>>

ParserSpec == ParserInit /\ [][ExtractMethod]_vars

\* ------------------------------------- the reason of a reverted call
\* The most pieces of the message of a JSON-RPC error.
MaxPieces == 3

RECURSIVE Concatenated(_)
Concatenated(pieces) ==
    IF pieces = << >> THEN "" ELSE pieces[1] \o Concatenated(Tail(pieces))

\* The outcomes of rpc_call for eth_call: a result, a request that could
\* not be sent, a response that could not be parsed, a response with an
\* error (its message made of up to MaxPieces pieces), a response with
\* neither error nor result.
EthCallOutcomes ==
    LET pieces == {"execution reverted:", "RPC error:", " low balance",
                   " revert", "\n", "upstream ", " timeout"}
    IN  { [kind |-> k, message |-> "", code |-> ""] :
            k \in {"result", "send_failed", "parse_failed", "no_result"} }
        \cup { [kind |-> "error", message |-> Concatenated(list), code |-> c] :
                 list \in UNION { [1..n -> pieces] : n \in 0..MaxPieces },
                 c \in {"3", "-32000"} }

\* The text of the error rpc_call returns.
rpc_call_error(outcome) ==
    CASE outcome.kind = "send_failed" -> "Failed to send RPC request"
      [] outcome.kind = "parse_failed" -> "Failed to parse RPC response"
      [] outcome.kind = "error" ->
            "RPC error: " \o outcome.message \o " (code: " \o outcome.code
            \o ")"
      [] outcome.kind = "no_result" -> "No result in RPC response"

\* get_revert_reason, on the outcome of its eth_call: a Result<String>.
get_revert_reason(outcome) ==
    IF outcome.kind = "result"
    THEN [ok |-> TRUE, value |-> Chars("No revert reason available")]
    ELSE LET error_msg == Chars(rpc_call_error(outcome))
             clean_msg ==
                 trim(replace(replace(error_msg, "\n", " "), "\r", " "))
             pieces == split_str(clean_msg, Chars("execution reverted:"))
         IN  IF contains(clean_msg, Chars("execution reverted:"))
             THEN IF Len(pieces) >= 2
                  THEN [ok |-> TRUE, value |-> trim(pieces[2])]
                  ELSE [ok |-> TRUE, value |-> clean_msg]
             ELSE IF \/ contains(clean_msg, Chars("revert"))
                     \/ contains(clean_msg, Chars("Revert"))
             THEN [ok |-> TRUE, value |-> clean_msg]
             ELSE [ok |-> TRUE, value |-> Chars("Reverted: ") \o clean_msg]

\* The reason call_method cleans: that of get_revert_reason, or the literal
\* of unwrap_or_else.
revert_reason(outcome) ==
    LET result == get_revert_reason(outcome)
    IN  IF result.ok THEN result.value ELSE Chars("Unknown revert reason")

\* The clean_reason of call_method.
clean_reason(reason) ==
    LET whole(text) == trim(replace(replace(text, "\n", " "), "\r", " "))
    IN  IF contains(reason, Chars("execution reverted:"))
        THEN LET pieces == split_str(reason, Chars("execution reverted:"))
             IN  IF Len(pieces) >= 2 THEN whole(trim(pieces[2]))
                 ELSE whole(reason)
        ELSE IF contains(reason, Chars("RPC error:"))
        THEN LET pieces == split_str(reason, Chars("RPC error:"))
             IN  IF Len(pieces) >= 2 THEN whole(trim(pieces[2]))
                 ELSE whole(reason)
        ELSE whole(reason)

RevertInit ==
    /\ NoEngine /\ WaitIdle /\ DriverIdle /\ CodecIdle
    /\ fpc = "reverted"
    /\ input \in EthCallOutcomes
    /\ output = << >>

\* The branch of call_method for a receipt whose status is not success:
\* the call simulated by eth_call, the reason cleaned, the result returned.
CallReverted ==
    /\ fpc = "reverted"
    /\ output' = [success |-> FALSE,
                  error |-> String(clean_reason(revert_reason(input)))]
    /\ fpc' = "returned"
    /\ UNCHANGED <<engineVars, pending, histVars, last, waitVars, driverVars,
                   codecVars, input>>

RevertSpec == RevertInit /\ [][CallReverted]_vars

\* ------------------------------- the strategies of the value generator
\* A u128 does not fit an integer of TLC: it is kept as v.to_string() gives
\* it, its decimal digits, the most significant first.

\* Twice a number: a digit of the double takes a carry when the digit after
\* it is 5 or more.
Doubled(digits) ==
    LET padded == <<0>> \o digits
        carry(i) == IF i < Len(padded) /\ padded[i + 1] >= 5 THEN 1 ELSE 0
        doubled == [i \in 1..Len(padded) |-> (2 * padded[i] + carry(i)) % 10]
    IN  IF doubled[1] = 0 THEN Tail(doubled) ELSE doubled

\* 1 << 16 * j, for j of 0..16.
ShiftedOneBy16 ==
   <<
      << 1 >>,
      << 6, 5, 5, 3, 6 >>,
      << 4, 2, 9, 4, 9, 6, 7, 2, 9, 6 >>,
      << 2, 8, 1, 4, 7, 4, 9, 7, 6, 7, 1, 0, 6, 5, 6 >>,
      << 1, 8, 4, 4, 6, 7, 4, 4, 0, 7, 3, 7, 0, 9, 5, 5, 1, 6, 1, 6 >>,
      << 1, 2, 0, 8, 9, 2, 5, 8, 1, 9, 6, 1, 4, 6, 2, 9, 1, 7, 4, 7, 0, 6,
         1, 7, 6 >>,
      << 7, 9, 2, 2, 8, 1, 6, 2, 5, 1, 4, 2, 6, 4, 3, 3, 7, 5, 9, 3, 5, 4,
         3, 9, 5, 0, 3, 3, 6 >>,
      << 5, 1, 9, 2, 2, 9, 6, 8, 5, 8, 5, 3, 4, 8, 2, 7, 6, 2, 8, 5, 3, 0,
         4, 9, 6, 3, 2, 9, 2, 2, 0, 0, 9, 6 >>,
      << 3, 4, 0, 2, 8, 2, 3, 6, 6, 9, 2, 0, 9, 3, 8, 4, 6, 3, 4, 6, 3, 3,
         7, 4, 6, 0, 7, 4, 3, 1, 7, 6, 8, 2, 1, 1, 4, 5, 6 >>,
      << 2, 2, 3, 0, 0, 7, 4, 5, 1, 9, 8, 5, 3, 0, 6, 2, 3, 1, 4, 1, 5, 3,
         5, 7, 1, 8, 2, 7, 2, 6, 4, 8, 3, 6, 1, 5, 0, 5, 9, 8, 0, 4, 1, 6 >>,
      << 1, 4, 6, 1, 5, 0, 1, 6, 3, 7, 3, 3, 0, 9, 0, 2, 9, 1, 8, 2, 0, 3,
         6, 8, 4, 8, 3, 2, 7, 1, 6, 2, 8, 3, 0, 1, 9, 6, 5, 5, 9, 3, 2, 5,
         4, 2, 9, 7, 6 >>,
      << 9, 5, 7, 8, 0, 9, 7, 1, 3, 0, 4, 1, 1, 8, 0, 5, 3, 6, 4, 7, 3, 9,
         6, 6, 8, 9, 1, 9, 6, 8, 9, 4, 3, 2, 3, 9, 7, 6, 1, 7, 1, 1, 9, 5,
         1, 3, 6, 4, 7, 5, 1, 3, 6 >>,
      << 6, 2, 7, 7, 1, 0, 1, 7, 3, 5, 3, 8, 6, 6, 8, 0, 7, 6, 3, 8, 3, 5,
         7, 8, 9, 4, 2, 3, 2, 0, 7, 6, 6, 6, 4, 1, 6, 1, 0, 2, 3, 5, 5, 4,
         4, 4, 4, 6, 4, 0, 3, 4, 5, 1, 2, 8, 9, 6 >>,
      << 4, 1, 1, 3, 7, 6, 1, 3, 9, 3, 3, 0, 3, 0, 1, 5, 1, 0, 5, 3, 8, 7,
         4, 2, 2, 9, 5, 6, 3, 9, 3, 3, 7, 6, 2, 6, 2, 4, 5, 6, 8, 3, 9, 6,
         6, 4, 0, 8, 3, 9, 4, 9, 6, 5, 8, 3, 7, 1, 5, 2, 2, 5, 6 >>,
      << 2, 6, 9, 5, 9, 9, 4, 6, 6, 6, 7, 1, 5, 0, 6, 3, 9, 7, 9, 4, 6, 6,
         7, 0, 1, 5, 0, 8, 7, 0, 1, 9, 6, 3, 0, 6, 7, 3, 6, 3, 7, 1, 4, 4,
         4, 2, 2, 5, 4, 0, 5, 7, 2, 4, 8, 1, 1, 0, 3, 6, 1, 0, 2, 4, 9, 2,
         1, 6 >>,
      << 1, 7, 6, 6, 8, 4, 7, 0, 6, 4, 7, 7, 8, 3, 8, 4, 3, 2, 9, 5, 8, 3,
         2, 9, 7, 5, 0, 0, 7, 4, 2, 9, 1, 8, 5, 1, 5, 8, 2, 7, 4, 8, 3, 8,
         9, 6, 8, 7, 5, 6, 1, 8, 9, 5, 8, 1, 2, 1, 6, 0, 6, 2, 0, 1, 2, 9,
         2, 6, 1, 9, 7, 7, 6 >>,
      << 1, 1, 5, 7, 9, 2, 0, 8, 9, 2, 3, 7, 3, 1, 6, 1, 9, 5, 4, 2, 3, 5,
         7, 0, 9, 8, 5, 0, 0, 8, 6, 8, 7, 9, 0, 7, 8, 5, 3, 2, 6, 9, 9, 8,
         4, 6, 6, 5, 6, 4, 0, 5, 6, 4, 0, 3, 9, 4, 5, 7, 5, 8, 4, 0, 0, 7,
         9, 1, 3, 1, 2, 9, 6, 3, 9, 9, 3, 6 >>
   >>

\* 1 << k, for k of 0..256: 1 << 16 * (k / 16), doubled k % 16 times.
RECURSIVE DoubledTimes(_, _)
DoubledTimes(digits, n) ==
    IF n = 0 THEN digits ELSE Doubled(DoubledTimes(digits, n - 1))
ShiftedOne ==
    [k \in 0..256 |-> DoubledTimes(ShiftedOneBy16[(k \div 16) + 1], k % 16)]

\* u32::MAX, u64::MAX and u128::MAX: 1 << bits, less one.
MaxOfWidth(bits) ==
    LET digits == ShiftedOne[bits]
    IN  [digits EXCEPT ![Len(digits)] = digits[Len(digits)] - 1]

\* 10u128.pow(power).
TenToThe(power) == <<1>> \o [i \in 1..power |-> 0]

\* The arm of generate_random_value for Uint256, on what the generator
\* draws: strategy of gen_range(0..100), range of the gen_range of the
\* first three bands, pick of gen_range(0..6), power of gen_range(0..256)
\* or gen_range(0..39), shift of gen_range(0..10), base of
\* gen_range(1..1000), random of gen::<u128>() (as its decimal digits).
generate_uint256(d) ==
    LET val ==
          CASE d.strategy \in 0..19 -> to_string(d.range)
            [] d.strategy \in 20..39 -> to_string(d.range)
            [] d.strategy \in 40..54 -> to_string(d.range)
            [] d.strategy \in 55..64 ->
                 CASE d.pick = 0 -> to_string(0)
                   [] d.pick = 1 -> to_string(1)
                   [] d.pick = 2 -> to_string(2)
                   [] d.pick = 3 -> MaxOfWidth(32)
                   [] d.pick = 4 -> MaxOfWidth(64)
                   [] OTHER -> MaxOfWidth(128)
            [] d.strategy \in 65..79 ->
                 IF d.power < 128 THEN ShiftedOne[d.power]
                 ELSE MaxOfWidth(128 - d.shift)
            [] d.strategy \in 80..89 ->
                 IF d.power <= 18 THEN TenToThe(d.power)
                 ELSE to_string(d.base) \o Tail(TenToThe(18))
            [] OTHER -> d.random
    IN  [tag |-> "Uint256", payload |-> val]

\* The five test accounts of the Address arm, as their 40 digits.
test_accounts ==
    << FirstAccountHex,
       << 7, 0, 9, 9, 7, 9, 7, 0, 12, 5, 1, 8, 1, 2, 13, 12, 3,
          10, 0, 1, 0, 12, 7, 13, 0, 1, 11, 5, 0, 14, 0, 13, 1, 7,
          13, 12, 7, 9, 12, 8 >>,
       << 3, 12, 4, 4, 12, 13, 13, 13, 11, 6, 10, 9, 0, 0, 15, 10, 2,
          11, 5, 8, 5, 13, 13, 2, 9, 9, 14, 0, 3, 13, 1, 2, 15, 10,
          4, 2, 9, 3, 11, 12 >>,
       << 9, 0, 15, 7, 9, 11, 15, 6, 14, 11, 2, 12, 4, 15, 8, 7, 0,
          3, 6, 5, 14, 7, 8, 5, 9, 8, 2, 14, 1, 15, 1, 0, 1, 14,
          9, 3, 11, 9, 0, 6 >>,
       << 1, 5, 13, 3, 4, 10, 10, 15, 5, 4, 2, 6, 7, 13, 11, 7, 13,
          7, 12, 3, 6, 7, 8, 3, 9, 10, 10, 15, 7, 1, 10, 0, 0, 10,
          2, 12, 6, 10, 6, 5 >> >>

\* A u128 as its 32 hexadecimal digits: a & b, and format!("{:040x}", v).
BitAnd(a, b) ==
    LET bit(v, k) == (v \div (2 ^ k)) % 2
        nibble(x, y) ==
            bit(x, 0) * bit(y, 0) + 2 * bit(x, 1) * bit(y, 1)
            + 4 * bit(x, 2) * bit(y, 2) + 8 * bit(x, 3) * bit(y, 3)
    IN  [i \in 1..32 |-> nibble(a[i], b[i])]
Format040x(v) == [i \in 1..8 |-> 0] \o v

\* The arm of generate_random_value for Address: account of
\* gen_range(0..test_accounts.len()), low of gen_range(1..20), random of
\* gen::<u128>() (as its 32 hexadecimal digits).
generate_address(d) ==
    LET addr ==
          CASE d.strategy \in 0..24 -> test_accounts[d.account + 1]
            [] d.strategy \in 25..34 -> [i \in 1..40 |-> 0]
            [] d.strategy \in 35..39 -> Hex040(d.low)
            [] OTHER ->
                 \* 0xFFFFFFFFFFFFFFFFFFFFu128
                 LET mask == [i \in 1..32 |-> IF i > 12 THEN 15 ELSE 0]
                 IN  Format040x(BitAnd(d.random, mask))
    IN  [tag |-> "Address", payload |-> addr]

\* What gen::<u128>() may give here, in hexadecimal digits: 0, 2^80,
\* u128::MAX, and the low 128 bits of the first test account.
RandomHex ==
    { [i \in 1..32 |-> 0],
      [i \in 1..32 |-> IF i = 12 THEN 1 ELSE 0],
      [i \in 1..32 |-> 15],
      SubSeq(FirstAccountHex, 9, 40) }

\* The draws of the generator for one value, by band of the strategy; a
\* draw the band does not make is left at 0.
NoDraw ==
    [sol_type |-> "Uint256", strategy |-> 0, range |-> 0, pick |-> 0,
     power |-> 0, shift |-> 0, base |-> 0, account |-> 0, low |-> 0,
     random |-> << >>]
Uint256Draws ==
    { [NoDraw EXCEPT !.strategy = st, !.range = r] :
        st \in {0, 19}, r \in {0, 100} }
    \cup { [NoDraw EXCEPT !.strategy = st, !.range = r] :
        st \in {20, 39}, r \in {100, 100000} }
    \cup { [NoDraw EXCEPT !.strategy = st, !.range = r] :
        st \in {40, 54}, r \in {100000, 10000000} }
    \cup { [NoDraw EXCEPT !.strategy = st, !.pick = p] :
        st \in {55, 64}, p \in 0..5 }
    \cup { [NoDraw EXCEPT !.strategy = st, !.power = p] :
        st \in {65, 79}, p \in 0..127 }
    \cup { [NoDraw EXCEPT !.strategy = st, !.power = p, !.shift = sh] :
        st \in {65, 79}, p \in 128..255, sh \in 0..9 }
    \cup { [NoDraw EXCEPT !.strategy = st, !.power = p] :
        st \in {80, 89}, p \in 0..18 }
    \cup { [NoDraw EXCEPT !.strategy = st, !.power = p, !.base = b] :
        st \in {80, 89}, p \in 19..38, b \in {1, 10, 999} }
    \cup { [NoDraw EXCEPT !.strategy = st, !.random = r] :
        st \in {90, 99},
        r \in {to_string(0), ShiftedOne[100], MaxOfWidth(128)} }
AddressDraws ==
    { [NoDraw EXCEPT !.sol_type = "Address", !.strategy = st, !.account = a] :
        st \in {0, 24}, a \in 0..4 }
    \cup { [NoDraw EXCEPT !.sol_type = "Address", !.strategy = st] :
        st \in {25, 34} }
    \cup { [NoDraw EXCEPT !.sol_type = "Address", !.strategy = st, !.low = l] :
        st \in {35, 39}, l \in 1..19 }
    \cup { [NoDraw EXCEPT !.sol_type = "Address", !.strategy = st,
                          !.random = r] :
        st \in {40, 99}, r \in RandomHex }

GeneratorInit ==
    /\ NoEngine /\ WaitIdle /\ DriverIdle /\ CodecIdle
    /\ fpc = "draw"
    /\ input \in Uint256Draws \cup AddressDraws
    /\ output = << >>

\* generate_random_value for a Uint256 or an Address parameter.
GenerateValue ==
    /\ fpc = "draw"
    /\ output' = IF input.sol_type = "Uint256" THEN generate_uint256(input)
                 ELSE generate_address(input)
    /\ fpc' = "generated"
    /\ UNCHANGED <<engineVars, pending, histVars, last, waitVars, driverVars,
                   codecVars, input>>

GeneratorSpec == GeneratorInit /\ [][GenerateValue]_vars

\* ------------------------------- fuzz_contract called again on a fuzzer
\* fuzz_contract has returned and is called once more on the same
\* SolidityFuzzer: its locals start afresh, the engine is the one the
\* earlier call left.  Calls are made while the node has accepted fewer
\* than MaxTx transactions.
FuzzContractAgain ==
    /\ dpc \in {"ok", "err"}
    /\ Broadcast < MaxTx
    /\ dpc' = "idle"
    /\ contract' = NoContract
    /\ mi' = 0
    /\ iter' = 0
    /\ total_passed' = 0
    /\ total_failed' = 0
    /\ total_skipped' = 0
    /\ method_passed' = 0
    /\ method_failed' = 0
    /\ method_skipped' = 0
    /\ bytecode' = "unset"
    /\ UNCHANGED <<engineVars, pending, histVars, last, waitVars, codecVars, pureVars,
                   iterations, errors, lastIter, calledMethods, deployMet>>

SessionsNext == DriverNext \/ FuzzContractAgain

SessionsSpec == DriverInit /\ [][SessionsNext]_vars

\* ------------------------------------ one parameter list, from declaration
\* ------------------------------------ to encoded arguments and signature
\* Type tokens of a declaration: those parse_type_from_string has an arm
\* for, and two it has none for.
RecognisedTokens ==
    {"uint8", "uint16", "uint32", "uint64", "uint128", "uint256", "uint",
     "int8", "int16", "int32", "int64", "int128", "int256", "int",
     "address", "bool", "string", "bytes"}
TypeTokens == RecognisedTokens \cup {"bytes32", "uint256[]"}

\* What the generator may draw here.
CodecDraws ==
    Draws \cup { [num |-> 255, byte |-> 255, flag |-> TRUE, text |-> "",
                  addr |-> Hex040(19)] }

\* The lists over a set, of one to MaxArgs elements.
Lists(S) == UNION { [1..n -> S] : n \in 1..MaxArgs }

\* The name of the method the list belongs to.
MethodName == "transfer"

CodecInit ==
    /\ NoEngine /\ WaitIdle /\ DriverIdle /\ PureIdle
    /\ cpc = "start"
    /\ type_tokens = << >>
    /\ param_types = << >>
    /\ mock_args = << >>
    /\ encoded_args = NoEncoding
    /\ method_signature = ""

\* extract_parameters_from_line on the type tokens of a declaration.
CodecParse(tokens) ==
    /\ cpc = "start"
    /\ type_tokens' = tokens
    /\ param_types' = [i \in 1..Len(tokens) |->
                         parse_type_from_string(tokens[i])]
    /\ cpc' = "typed"
    /\ UNCHANGED <<mock_args, encoded_args, method_signature>>

\* A parameter list whose types are given as SolidityType values.
CodecTypes(types) ==
    /\ cpc = "start"
    /\ type_tokens' = << >>
    /\ param_types' = types
    /\ cpc' = "typed"
    /\ UNCHANGED <<mock_args, encoded_args, method_signature>>

\* method.parameters.iter().map(|p| generate_random_value(&p.param_type))
CodecGenerate(draws) ==
    /\ cpc = "typed"
    /\ mock_args' = [i \in 1..Len(param_types) |->
                       generate_random_value(param_types[i], draws[i])]
    /\ cpc' = "generated"
    /\ UNCHANGED <<type_tokens, param_types, encoded_args, method_signature>>

\* build_method_signature and encode_abi_args in execute_test_case_evm,
\* which the loop calls for a list without the placeholder.
CodecEncode ==
    /\ cpc = "generated"
    /\ ~\E i \in 1..Len(mock_args) : IsDefaultString(mock_args[i])
    /\ method_signature' = build_method_signature(MethodName, mock_args)
    /\ encoded_args' = encode_abi_args(mock_args)
    /\ cpc' = "done"
    /\ UNCHANGED <<type_tokens, param_types, mock_args>>

CodecFrame ==
    UNCHANGED <<engineVars, pending, histVars, last, waitVars, driverVars,
                pureVars>>

CodecFromTokens ==
    /\ cpc = "start"
    /\ \E tokens \in Lists(TypeTokens) : CodecParse(tokens)
    /\ CodecFrame
CodecFromTypes ==
    /\ cpc = "start"
    /\ \E types \in Lists(SolidityTypes) : CodecTypes(types)
    /\ CodecFrame
CodecDraw ==
    /\ cpc = "typed"
    /\ \E draws \in [1..Len(param_types) -> CodecDraws] : CodecGenerate(draws)
    /\ CodecFrame
CodecRun ==
    /\ cpc = "generated"
    /\ CodecEncode
    /\ CodecFrame
\* The iteration of a list with the placeholder: counted as skipped, no
\* signature built, nothing encoded.
CodecSkip ==
    /\ cpc = "generated"
    /\ \E i \in 1..Len(mock_args) : IsDefaultString(mock_args[i])
    /\ cpc' = "skipped"
    /\ UNCHANGED <<type_tokens, param_types, mock_args, encoded_args,
                   method_signature>>
    /\ CodecFrame

CodecNext ==
    CodecFromTokens \/ CodecFromTypes \/ CodecDraw \/ CodecRun \/ CodecSkip

CodecSpec == CodecInit /\ [][CodecNext]_vars

\* ------------------------------------------------------------------ claims

\* C1: for every account, nonces[account] equals the count seeded at
\* construction plus the number of transactions the node accepted from that
\* account since, whatever their later outcome.
NonceCountsEveryBroadcast ==
    \A a \in Range(accounts) : nonces[a] = seeded[a] + broadcast[a]

\* C2: each account's nonce equals its seeded nonce plus the deployments
\* from it that returned an address plus the method calls from it that
\* obtained a receipt; nothing else changes a nonce, and an operation of one
\* account leaves the nonces of the others alone.
NonceCountsCompleted ==
    \A a \in Range(accounts) :
        nonces[a] = seeded[a] + deploysReturned[a] + callsReceipted[a]

\* C2 witness: a deployment returned an address from the first account and a
\* call from another account obtained a receipt.
NonceCountsCompletedWitness ==
    \E a \in Range(accounts) :
        /\ a # accounts[1]
        /\ callsReceipted[a] = 1
        /\ deploysReturned[accounts[1]] = 1
        /\ nonces[a] = seeded[a] + 1

\* C3: no transaction is sent while a transaction sent earlier by the same
\* engine is still unmined: each step in which the node accepts a
\* transaction starts with none pending, also after a receipt timeout.
SendsOnlyWhenMined == [][Broadcast' # Broadcast => pending = 0]_vars

\* C4: wait_for_transaction makes at most 100 receipt queries for one
\* transaction.
AtMostHundredQueries == queries <= MAX_ATTEMPTS

\* The state of one wait against the answers it has had.
WaitShape ==
    /\ wpc \in {"polling", "receipt", "error", "timeout"}
    /\ wpc = "polling" => nullAnswers = queries /\ queries <= MAX_ATTEMPTS
    /\ wpc = "receipt" =>
          lastAnswer = "receipt" /\ nullAnswers = queries - 1
    /\ wpc = "error" =>
          /\ lastAnswer \in {"no_response", "rpc_error", "bad_receipt"}
          /\ nullAnswers = queries - 1
    /\ wpc = "timeout" =>
          /\ lastAnswer = "null"
          /\ nullAnswers = queries
          /\ queries >= MAX_ATTEMPTS

\* C5: wait_for_transaction ends, and ends in exactly one way: with the
\* receipt of the first non-null result, with an error returned at once on
\* the first answer that is one, or with the timeout after nothing but null
\* results up to the limit; while only null results have come and the limit
\* is not passed it goes on polling.
WaitEndsInOneOutcome == []WaitShape /\ <>(wpc # "polling")

\* C5 witness: a receipt arrives after null results.
WaitEndsInOneOutcomeWitness ==
    wpc = "receipt" /\ nullAnswers = MAX_ATTEMPTS - 1

\* C6: a name is a key of deployed_contracts only if a success receipt was
\* seen for a deployment of that name, and the address stored is the
\* contractAddress of such a receipt.
DeployedOnlyAfterSuccess ==
    \A n \in DOMAIN deployed_contracts :
        deployed_contracts[n] \in successAddrs[n]

\* C6 witness: a name was deployed twice, at two addresses.
DeployedOnlyAfterSuccessWitness ==
    \E n \in DOMAIN deployed_contracts : Cardinality(successAddrs[n]) = 2

\* C7: the current sender is always one of accounts.
SenderIsAccount == current_sender \in Range(accounts)

\* C7 witness: the sender was moved to the second account and a deployment
\* from it returned.
SenderIsAccountWitness ==
    /\ Len(accounts) = 2
    /\ current_sender = accounts[2]
    /\ deploysReturned[accounts[2]] = 1

\* C8: set_sender(i) with i >= len(accounts) leaves the sender as it was,
\* with i < len(accounts) makes it accounts[i]; accounts, nonces and
\* deployed_contracts stay as they were.
SetSenderFrame ==
    [][ last'.op = "set_sender" =>
          /\ current_sender' = IF last'.arg < Len(accounts)
                               THEN accounts[last'.arg + 1]
                               ELSE current_sender
          /\ UNCHANGED <<accounts, nonces, deployed_contracts>> ]_vars

\* C8 witness: the sender is the second account and a set_sender with an
\* index out of range has just been made.
SetSenderFrameWitness ==
    /\ last.op = "set_sender"
    /\ last.arg >= Len(accounts)
    /\ current_sender # accounts[1]

\* C9: an executed iteration ends as Passed or Failed; Passed exactly when a
\* receipt with status "0x1" or "1" was obtained; Failed with the revert
\* reason after a receipt of another or no status; Failed with a transport
\* message when the send failed or no receipt was obtained.
Executed == lastIter.outcome \notin {"none", "Skipped"}
SuccessReceipt ==
    /\ lastIter.sent = "hash"
    /\ lastIter.waitState = "receipt"
    /\ lastIter.status \in {"0x1", "1"}
IterationOutcome ==
    Executed =>
        /\ lastIter.outcome \in {"Passed", "Failed"}
        /\ lastIter.outcome = "Passed" <=> SuccessReceipt
        /\ (lastIter.sent = "hash" /\ lastIter.waitState = "receipt"
              /\ ~SuccessReceipt) =>
               lastIter.outcome = "Failed" /\ lastIter.error = "revert reason"
        /\ (lastIter.sent = "hash" /\ lastIter.waitState # "receipt") =>
               /\ lastIter.outcome = "Failed"
               /\ lastIter.error = "Failed to get receipt"
        /\ lastIter.sent \notin {"hash", "not_sent"} =>
               /\ lastIter.outcome = "Failed"
               /\ lastIter.error \in {"Transaction failed",
                                       "EVM execution failed"}

\* C9 witness: an iteration sent from another account than the first got a
\* receipt without status and failed with the revert reason.
IterationOutcomeWitness ==
    /\ lastIter.outcome = "Failed"
    /\ lastIter.error = "revert reason"
    /\ lastIter.waitState = "receipt"
    /\ lastIter.status = NoStatus
    /\ lastIter.sender # accounts[1]

\* The methods fuzz_contract runs iterations for.
Runnable(c) ==
    Cardinality({ j \in 1..Len(methods_to_test(c)) :
                    methods_to_test(c)[j].parameters # <<>> })

\* C10: after the deployment an error inside an iteration does not end the
\* session: fuzz_contract returns Err only before any iteration, returns Ok
\* only after FuzzRuns iterations of each eligible method with parameters,
\* and each error inside an iteration has added one to failed.
ErrorsNeverEndSession ==
    /\ total_failed + method_failed = errors
    /\ dpc = "err" => iterations = 0
    /\ dpc = "ok" =>
          /\ iterations = FuzzRuns * Runnable(contract)
          /\ total_passed + total_failed + total_skipped = iterations
    /\ dpc = "fuzz" => iterations < FuzzRuns * Runnable(contract)

\* C10 witness: the session of Token returned Ok after every iteration of
\* transfer failed, the last on a transaction hash that is not a string.
ErrorsNeverEndSessionWitness ==
    /\ dpc = "ok"
    /\ contract = TokenSurface
    /\ total_failed = FuzzRuns
    /\ errors = FuzzRuns
    /\ lastIter.sent = "non_string"

\* C11: a compilation that returns an error ends fuzz_contract with an
\* error in every driver: no iteration is run for the contract and no case
\* is executed by simulation.
CompilationFailureIsFatal ==
    bytecode = "none" =>
        /\ dpc = "err"
        /\ iterations = 0
        /\ lastIter.mode # "simulated"

\* C12: a deployment that fails (the send gives no hash, no receipt is
\* obtained, the receipt's status is not success, the receipt has no
\* contractAddress) ends fuzz_contract with an error: no iteration is run,
\* call_method is called for no method and deployed_contracts is as it was.
DeploymentFailed ==
    /\ deployMet.sent # "not_sent"
    /\ ~ /\ deployMet.sent = "hash"
         /\ deployMet.waitState = "receipt"
         /\ deployMet.status \in {"0x1", "1"}
         /\ deployMet.address # NoAddr
DeploymentFailureIsFatal ==
    DeploymentFailed =>
        /\ dpc = "err"
        /\ iterations = 0
        /\ calledMethods = {}
        /\ deployed_contracts = << >>
        /\ \A a \in Range(accounts) : callsReceipted[a] = 0

\* C12 witness: the deployment got a success receipt without a
\* contractAddress, after its transaction was accepted.
DeploymentFailureIsFatalWitness ==
    /\ dpc = "err"
    /\ deployMet.waitState = "receipt"
    /\ deployMet.status = "0x1"
    /\ deployMet.address = NoAddr
    /\ broadcast[current_sender] = 1

\* C13: when none of the probed addresses answers eth_getBalance, new
\* returns an error and no engine is made.
ZeroAccountsIsFatal ==
    (last.op = "new" /\ last.arg.probed = {}) =>
        ~last.arg.ok /\ accounts = << >>

\* The list positions new() keeps for a set of positions that answered.
Kept(probed) == IF probed = {} THEN {1} ELSE probed
\* The i-th position of a set of positions, in list order.
Nth(positions, i) ==
    CHOOSE q \in positions : Cardinality({ r \in positions : r < q }) = i - 1

\* C14: after new(), for any pattern of probes, accounts is not empty and
\* holds, in list order, exactly the addresses whose probe succeeded, or the
\* first address alone when none did; nonces has an entry for each account
\* and for no other address, the count the node returned or 0 when the
\* count query failed.
AccountsAreTheProbedOnes ==
    last.op = "new" =>
        LET kept == Kept(last.arg.probed)
        IN  /\ last.arg.ok
            /\ accounts # << >>
            /\ Len(accounts) = Cardinality(kept)
            /\ \A i \in 1..Len(accounts) :
                  accounts[i] = anvil_accounts[Nth(kept, i)]
            /\ DOMAIN nonces = Range(accounts)
            /\ \A i \in 1..Len(accounts) :
                  LET answer == last.arg.counted[Nth(kept, i)]
                  IN  nonces[accounts[i]] =
                        IF answer.ok THEN answer.count ELSE 0
            /\ current_sender = accounts[1]

\* C14 witness: the second and the fourth address answered the probe, the
\* count query of the second failed and that of the fourth returned 1.
AccountsAreTheProbedOnesWitness ==
    /\ last.op = "new"
    /\ last.arg.probed = {2, 4}
    /\ accounts = << anvil_accounts[2], anvil_accounts[4] >>
    /\ ~last.arg.counted[2].ok
    /\ last.arg.counted[2].count = 1
    /\ nonces[anvil_accounts[2]] = 0
    /\ nonces[anvil_accounts[4]] = 1

\* The methods of the contract under test, and those without parameters.
MethodsOf(c) == Range(c.methods)
PublicOrExternal(m) ==
    /\ m.visibility \in {"Public", "External"}
    /\ ~(m.is_constructor \/ m.is_fallback \/ m.is_receive)

\* C15: for an eligible method without parameters no iteration is run:
\* call_method is never called for it, no iteration is recorded for it, and
\* the counters of a finished session hold FuzzRuns iterations for each
\* eligible method with parameters and nothing more.
ZeroParameterMethodsNotRun ==
    LET zero == { m.name : m \in { x \in MethodsOf(contract) :
                                     x.parameters = << >> } }
        withParams == { m \in MethodsOf(contract) :
                          PublicOrExternal(m) /\ m.parameters # << >> }
    IN  /\ calledMethods \cap zero = {}
        /\ lastIter.method \notin zero
        /\ dpc = "ok" =>
              total_passed + total_failed + total_skipped
                  = FuzzRuns * Cardinality(withParams)

\* C15 witness: the session of Token, whose ping() is external and takes no
\* parameter, has ended with every iteration of transfer passed.
ZeroParameterMethodsNotRunWitness ==
    /\ dpc = "ok"
    /\ contract = TokenSurface
    /\ total_passed = FuzzRuns
    /\ calledMethods = {"transfer"}

\* The parameter types no value is generated for.
UnsupportedTypes == {"Custom", "Mapping", "Struct"}
HasUnsupported(c, name) ==
    \E m \in MethodsOf(c) :
        /\ m.name = name
        /\ \E i \in 1..Len(m.parameters) :
              m.parameters[i].param_type \in UnsupportedTypes

\* C16: an iteration of a method with a parameter of an unsupported type
\* adds one to skipped and nothing to passed or failed, and no transaction
\* is sent for it.
UnsupportedIsSkipped ==
    [][ (iterations' = iterations + 1
         /\ HasUnsupported(contract, lastIter'.method)) =>
          /\ lastIter'.outcome = "Skipped"
          /\ total_skipped' + method_skipped'
                = total_skipped + method_skipped + 1
          /\ total_passed' + method_passed' = total_passed + method_passed
          /\ total_failed' + method_failed' = total_failed + method_failed
          /\ UNCHANGED <<nonces, pending, broadcast, calledMethods, last>>
      ]_vars

\* C16 witness: the iterations of bind(address, struct p), whose second
\* parameter parses as Custom, were skipped and
\* those of index(mapping) are being skipped.
UnsupportedIsSkippedWitness ==
    /\ contract = PoolSurface
    /\ lastIter.method = "index"
    /\ lastIter.outcome = "Skipped"
    /\ total_skipped = FuzzRuns
    /\ calledMethods = {}

\* C17: call_method is called only for methods parsed as public or external
\* that are no constructor, fallback or receive.
OnlyEligibleMethodsCalled ==
    LET allowed == { m.name : m \in { x \in MethodsOf(contract) :
                                        PublicOrExternal(x) } }
    IN  /\ calledMethods \subseteq allowed
        /\ lastIter.method \in allowed \cup {"none"}

\* C17 witness: the session of Token has ended; transfer was called and
\* failed throughout, the internal helper and the special methods were not.
OnlyEligibleMethodsCalledWitness ==
    /\ dpc = "ok"
    /\ contract = TokenSurface
    /\ total_failed = FuzzRuns
    /\ "transfer" \in calledMethods
    /\ "helper" \notin calledMethods


\* The static types: the unsigned and signed integers, address, bool and
\* the fixed-size byte strings.
StaticTypes == UintTypes \cup IntTypes \cup FixedBytesTypes \cup {"Address", "Bool"}

\* The i-th 32-byte word of the encoded arguments.
WordOf(i) == SubSeq(encoded_args.bytes, 32 * (i - 1) + 1, 32 * i)

\* The two hexadecimal digits of each byte of a sequence of bytes.
Nibbles(bytes) ==
    [j \in 1..(2 * Len(bytes)) |->
        IF j % 2 = 1 THEN bytes[(j + 1) \div 2] \div 16
        ELSE bytes[j \div 2] % 16]

\* The number a word holds, right-aligned and big-endian; -1 when it does
\* not fit the integers of the model.
WordValue(word) ==
    IF (\E j \in 1..28 : word[j] # 0) \/ word[29] >= 128 THEN -1
    ELSE ((word[29] * 256 + word[30]) * 256 + word[31]) * 256 + word[32]

\* The value of type sol_type that a 32-byte word decodes to.
DecodeWord(word, sol_type) ==
    CASE sol_type \in UintTypes \ {"Uint256"} -> WordValue(word)
      [] sol_type = "Uint256" -> to_string(WordValue(word))
      [] sol_type = "Address" -> Nibbles(SubSeq(word, 13, 32))
      [] sol_type = "Bool" -> word[32] = 1
      [] OTHER -> <<"undecoded", sol_type>>

\* C18: for every static type T, the value generated for T carries the tag
\* of T, encoding the generated values succeeds, and decoding each encoded
\* word as T gives back the generated value.
GenerateEncodeRoundTrip ==
    (cpc = "done" /\ \A i \in 1..Len(param_types) : param_types[i] \in StaticTypes)
    => /\ \A i \in 1..Len(mock_args) : mock_args[i].tag = param_types[i]
       /\ encoded_args.ok
       /\ \A i \in 1..Len(mock_args) :
            DecodeWord(WordOf(i), param_types[i]) = mock_args[i].payload

\* Byte k of a number, counted from the least significant one.
ByteOf(v, k) == IF k > 3 THEN 0 ELSE (v \div (256 ^ k)) % 256

\* The number a string of decimal digits denotes.
RECURSIVE DecimalValue(_)
DecimalValue(digits) ==
    IF digits = << >> THEN 0
    ELSE 10 * DecimalValue(SubSeq(digits, 1, Len(digits) - 1))
         + digits[Len(digits)]

\* The word the layout prescribes for an unsigned integer, a boolean or an
\* address.
ExpectedWord(arg) ==
    CASE arg.tag \in UintTypes \ {"Uint256"} ->
           [j \in 1..32 |-> ByteOf(arg.payload, 32 - j)]
      [] arg.tag = "Uint256" ->
           [j \in 1..32 |-> ByteOf(DecimalValue(arg.payload), 32 - j)]
      [] arg.tag = "Bool" ->
           [j \in 1..32 |-> IF j = 32 /\ arg.payload THEN 1 ELSE 0]
      [] arg.tag = "Address" ->
           [j \in 1..32 |->
               IF j <= 12 THEN 0
               ELSE 16 * arg.payload[2 * (j - 12) - 1]
                    + arg.payload[2 * (j - 12)]]

\* C19: a successful encoding of unsigned integers, booleans and addresses
\* has 32 bytes per argument, in argument order: an unsigned integer
\* big-endian and right-aligned, a boolean as 0 or 1 in the last byte, an
\* address as 12 zero bytes followed by its 20 bytes.
EncodingLayout ==
    (/\ cpc = "done"
     /\ encoded_args.ok
     /\ \A i \in 1..Len(mock_args) :
          mock_args[i].tag \in UintTypes \cup {"Bool", "Address"})
    => /\ Len(encoded_args.bytes) = 32 * Len(mock_args)
       /\ \A i \in 1..Len(mock_args) : WordOf(i) = ExpectedWord(mock_args[i])

EncodingLayoutWitness ==
    /\ cpc = "done"
    /\ encoded_args.ok
    /\ Len(mock_args) = 2
    /\ mock_args[1].tag = "Uint32"
    /\ mock_args[1].payload = 16909060
    /\ mock_args[2].tag = "Address"
    /\ mock_args[2].payload = FirstAccountHex
    /\ WordOf(1) = [j \in 1..32 |-> IF j <= 28 THEN 0 ELSE j - 28]

\* The canonical Solidity name of a declared type: uint and int stand for
\* uint256 and int256.
Canonical(token) ==
    CASE token = "uint" -> "uint256"
      [] token = "int" -> "int256"
      [] OTHER -> token

\* The canonical names of a non-empty list of declared types, separated by
\* commas.
RECURSIVE CanonicalList(_)
CanonicalList(tokens) ==
    IF Len(tokens) = 1 THEN Canonical(tokens[1])
    ELSE CanonicalList(SubSeq(tokens, 1, Len(tokens) - 1)) \o ","
         \o Canonical(tokens[Len(tokens)])

\* C20: for a parameter list declared with elementary types, the type
\* string derived from each generated value is the canonical name of the
\* declared type, and the signature is the method name followed by these
\* names in parentheses, separated by commas without spaces. The type
\* strings are those of the generated values whether the iteration goes on
\* to build the signature or is skipped for a placeholder among them.
SignatureUsesDeclaredTypes ==
    (/\ cpc \in {"done", "skipped"}
     /\ type_tokens # << >>
     /\ \A i \in 1..Len(type_tokens) : type_tokens[i] \in RecognisedTokens)
    => /\ Len(mock_args) = Len(type_tokens)
       /\ \A i \in 1..Len(type_tokens) :
            solidity_value_to_type_string(mock_args[i])
                = Canonical(type_tokens[i])
       /\ cpc = "done" =>
            method_signature =
                MethodName \o "(" \o CanonicalList(type_tokens) \o ")"

SignatureUsesDeclaredTypesWitness ==
    /\ cpc = "done"
    /\ type_tokens = <<"uint", "int">>
    /\ method_signature = "transfer(uint256,int256)"


\* C23: the sender index selected before an executed iteration is a valid
\* index, 0 when there is one account and otherwise 0 or a value of
\* 1..len(accounts)-1; set_sender makes the account at that index the
\* current sender, and the transaction of the iteration is sent from it.
SenderIndexIsValid ==
    [][(dpc = "fuzz" /\ iterations' # iterations
        /\ lastIter'.outcome # "Skipped")
       => /\ lastIter'.index \in 0..(Len(accounts) - 1)
          /\ (Len(accounts) = 1 => lastIter'.index = 0)
          /\ current_sender' = accounts[lastIter'.index + 1]
          /\ lastIter'.sender = current_sender'
          /\ (Broadcast' # Broadcast
              => broadcast' = Bump(broadcast, accounts[lastIter'.index + 1]))
      ]_vars

SenderIndexIsValidWitness ==
    /\ dpc = "fuzz"
    /\ Len(accounts) > 1
    /\ lastIter.index = 1
    /\ lastIter.sent = "hash"
    /\ lastIter.sender = accounts[2]
    /\ broadcast[accounts[2]] > 0


\* The methods of a contract that are public or external, not special, and
\* have at least one parameter.
FuzzedMethods(c) ==
    { i \in 1..Len(c.methods) :
        /\ PublicOrExternal(c.methods[i])
        /\ ~c.methods[i].is_constructor
        /\ ~c.methods[i].is_fallback
        /\ ~c.methods[i].is_receive
        /\ c.methods[i].parameters # << >> }
Counted(kind) ==
    CASE kind = "Passed" -> total_passed + method_passed
      [] kind = "Failed" -> total_failed + method_failed
      [] kind = "Skipped" -> total_skipped + method_skipped

\* C28: each iteration increments exactly one of the passed, failed and
\* skipped counters, by one; when fuzz_contract returns Ok the three totals
\* add up to FUZZ_RUNS times the number of eligible methods that have at
\* least one parameter.
CountersAreConserved ==
    [][/\ iterations' # iterations
          => \E kind \in {"Passed", "Failed", "Skipped"} :
                /\ Counted(kind)' = Counted(kind) + 1
                /\ \A other \in {"Passed", "Failed", "Skipped"} \ {kind} :
                      Counted(other)' = Counted(other)
       /\ dpc' = "ok"
          => total_passed' + total_failed' + total_skipped'
                = FuzzRuns * Cardinality(FuzzedMethods(contract'))
      ]_vars

CountersAreConservedWitness ==
    /\ dpc = "ok"
    /\ Cardinality(FuzzedMethods(contract)) = 3
    /\ total_passed > 0
    /\ total_failed >= FuzzRuns
    /\ total_skipped >= FuzzRuns


\* C29: an iteration is counted as skipped only if a parameter of its
\* method has an unsupported type; with parameters of supported types only,
\* a string parameter included, the iteration is executed.
SkippedOnlyWhenUnsupported ==
    lastIter.outcome = "Skipped" => HasUnsupported(contract, lastIter.method)


\* C30: every deployment transaction fuzz_contract issues is sent from the
\* account of index 0, in every call of fuzz_contract on a fuzzer, a call
\* made after iterations of an earlier call rotated the sender included.
DeploysFromFirstAccount ==
    [][(last'.op = "deploy_contract" /\ Broadcast' # Broadcast)
       => broadcast' = Bump(broadcast, accounts[1])]_vars


\* The fragments declared between the parentheses of a line, and the type
\* each declares by its first word.
DeclaredFragments(line) ==
    LET inside == SubSeq(line, find(line, "(") + 1, find(line, ")") - 1)
        pieces == split(inside, ",")
    IN  SelectSeq([i \in 1..Len(pieces) |-> trim(pieces[i])],
                  LAMBDA piece : piece # << >>)
DeclaredTypes(line) ==
    LET fragments == DeclaredFragments(line)
    IN  [i \in 1..Len(fragments) |->
            parse_type_from_string(Text(split_whitespace(fragments[i])[1]))]
ParsedTypes(method) ==
    [i \in 1..Len(method.parameters) |-> method.parameters[i].param_type]

\* C21: a method of the source that the driver fuzzes has, as parsed, the
\* parameter types of the fragments declared between the parentheses of
\* its line, as many and in the same order; a fragment with a type and no
\* name is not dropped.
ParsedParametersAreDeclared ==
    (fpc = "parsed" /\ Eligible(output))
        => ParsedTypes(output) = DeclaredTypes(trim(input))

\* The words of a line, parentheses and commas separating like whitespace,
\* and the visibility keyword that comes first among them.
Words(line) ==
    split_whitespace([i \in 1..Len(line) |->
                         IF line[i] \in {"(", ")", ","} THEN " " ELSE line[i]])
KeywordVisibility ==
    [public |-> "Public", external |-> "External", internal |-> "Internal",
     private |-> "Private"]
IsKeyword(word) == Text(word) \in DOMAIN KeywordVisibility
DeclaredVisibility(line) ==
    LET keywords == SelectSeq(Words(line), IsKeyword)
    IN  IF keywords = << >> THEN "Public"
        ELSE KeywordVisibility[Text(keywords[1])]

\* C22: the visibility of a parsed method is that of the visibility keyword
\* that comes first on its line, public when there is none; a keyword
\* inside an identifier, or after the declared one, does not count.
VisibilityIsFirstKeyword ==
    fpc = "parsed" => output.visibility = DeclaredVisibility(trim(input))

\* C24: when the reason of a reverted call cannot be extracted, the
\* simulating eth_call failing to be performed or giving no reason, the
\* failure message call_method returns is "Unknown revert reason".
UnknownReasonWhenExtractionFails ==
    (fpc = "returned"
     /\ input.kind \in {"send_failed", "parse_failed", "no_result", "result"})
        => output.error = "Unknown revert reason"

\* A text with its line breaks replaced by spaces, trimmed, and without the
\* marker it begins with, if any.
RECURSIVE WithoutLeadingMarker(_)
WithoutLeadingMarker(text) ==
    LET markers == { m \in {Chars("execution reverted:"), Chars("RPC error:")} :
                       starts_with(text, m) }
    IN  IF markers = {} THEN text
        ELSE LET m == CHOOSE m \in markers : TRUE
             IN  WithoutLeadingMarker(trim(SubSeq(text, Len(m) + 1, Len(text))))
Sanitised(text) ==
    WithoutLeadingMarker(trim(replace(replace(text, "\n", " "), "\r", " ")))

\* The reason diagnosed for an outcome of the simulated call: the one
\* get_revert_reason returns, or the text of the error of the call itself.
Diagnosed(outcome) ==
    {revert_reason(outcome)}
    \cup (IF outcome.kind = "result" THEN {}
          ELSE {Chars(rpc_call_error(outcome))})

\* C25: the failure message of a reverted call is the diagnosed reason with
\* line breaks replaced by spaces, without a marker at its start, trimmed;
\* what follows the marker is kept whole, later markers included, and
\* nothing but a marker at the start is removed.
MessageIsSanitisedReason ==
    fpc = "returned"
        => \E reason \in Diagnosed(input) :
              output.error = String(Sanitised(reason))

\* The values documented for a band of the Uint256 strategy.
InRange(digits, low, high) ==
    /\ Len(digits) <= 8
    /\ parse_u128(digits) >= low
    /\ parse_u128(digits) <= high
EdgeValues ==
    {to_string(0), to_string(1), to_string(2), MaxOfWidth(32), MaxOfWidth(64),
     MaxOfWidth(256)}
InDocumentedBand(strategy, digits) ==
    CASE strategy \in 0..19 -> InRange(digits, 0, 100)
      [] strategy \in 20..39 -> InRange(digits, 100, 100000)
      [] strategy \in 40..54 -> InRange(digits, 100000, 10000000)
      [] strategy \in 55..64 -> digits \in EdgeValues
      [] strategy \in 65..79 -> \E k \in 0..255 : digits = ShiftedOne[k]
      [] strategy \in 80..89 -> \E k \in 0..38 : digits = TenToThe(k)
      [] OTHER -> TRUE

\* C26: a value the Uint256 generator draws lies in the set documented for
\* the band of its strategy: in band 55-64 one of 0, 1, 2, 2^32-1, 2^64-1,
\* 2^256-1, each of which some draw yields; in band 65-79 a power of two
\* 2^k, k of 0..255; in band 80-89 a power of ten 10^k, k of 0..38.
Uint256LiesInItsBand ==
    (fpc = "generated" /\ input.sol_type = "Uint256")
        => /\ InDocumentedBand(input.strategy, output.payload)
           /\ input.strategy \in 55..64
                => \A edge \in EdgeValues :
                      \E pick \in 0..5 :
                         generate_uint256([input EXCEPT !.pick = pick]).payload
                            = edge

\* C27: a generated address is 40 hexadecimal digits that the encoder
\* accepts as 20 bytes, and in the band of strategies 40-99 the addresses
\* with bits set above the low 80 are possible outputs too: whatever value
\* of 128 bits the generator may draw, the address of that value is one the
\* band yields.
AddressBandCoversItsRange ==
    (fpc = "generated" /\ input.sol_type = "Address")
        => /\ Len(output.payload) = 40
           /\ \A i \in 1..40 : output.payload[i] \in 0..15
           /\ encode_word(output).ok
           /\ input.strategy \in 40..99
                => \A value \in RandomHex :
                      \E random \in RandomHex :
                         generate_address([input EXCEPT !.random = random])
                            .payload = Format040x(value)

====
